---- MODULE Spec2Model ----
(***************************************************************************)
(* Darwin Push Port -> GTFS-Realtime bridge: the stream processor          *)
(* (src/src/processor.rs) folding TrainStatus, TrainOrder, Formation,      *)
(* StationMessage and Loading records into the shared state                *)
(* (src/src/state.rs), against the static schedule index                   *)
(* (src/src/static_data.rs).                                               *)
(*                                                                         *)
(* Representation.                                                         *)
(*  - Option<T> is a sequence of length 0 (None) or 1 (Some).              *)
(*  - A trip id / entity key is the sequence of its '_'-separated parts:   *)
(*    <<"L1","1">> is "L1_1"; format!("{}_VP", t) is Append(t, "VP") and   *)
(*    trip_id.split('_').next() is Head(t).                                *)
(*  - A date is a day number (days since the epoch); weekday = day % 7.    *)
(*  - An HH:MM text is the sequence of its ':'-separated fields, each an   *)
(*    integer, a negative one standing for a field that is not a u32.      *)
(*  - A DashMap / HashMap is a function on the set of its keys.            *)
(***************************************************************************)
EXTENDS Integers, Sequences, FiniteSets, TLC

VARIABLES
    trip_updates,      \* AppState.trip_updates   : key -> FeedEntity
    platforms_v2,      \* AppState.platforms_v2   : trip_id -> Seq(PlatformInfo)
    rid_to_trip_id,    \* AppState.rid_to_trip_id : rid -> trip_id
    station_messages,  \* AppState.station_messages : id -> text
    gtfs,              \* GTFSManager.data (the GtfsData behind the RwLock)
    pc,                \* position of the STOMP worker inside process_pmap
    cur,               \* the record being folded / folded last
    before,            \* the state maps when the fold of `cur` began
    frames,            \* number of records handed to the processor so far
    disk,              \* ./data : trips.pb and platforms_v2.bin, each absent or written
    saved,             \* the state maps when the files of `disk` were written
    link,              \* the STOMP worker's connection: attempts so far, and on the
                       \* connection in use the header blocks read by the listen loop,
                       \* the ACK ids written, the commands written and the number
                       \* of frames read before the loop
    sched,             \* the two sides of GTFSManager.data: the updater thread (upd)
                       \* and a thread inside a lookup (rd)
    tasks              \* what runs beside the stream processor: a cleanup pass under
                       \* way (gc), and for every task its position in the list of
                       \* guards it takes and drops (locks)

\* What lies outside the maps and the fold
aux == <<disk, saved, link, sched, tasks>>

vars == <<trip_updates, platforms_v2, rid_to_trip_id, station_messages, gtfs, pc, cur, before, frames, aux>>

----------------------------------------------------------------------------
(* Option, maps, stable sort *)

None == <<>>

Some(x) == <<x>>

IsSome(o) == Len(o) = 1

Unwrap(o) == o[1]

UnwrapOr(o, d) == IF Len(o) = 1 THEN o[1] ELSE d

EmptyMap == <<>>

HasKey(m, k) == k \in DOMAIN m

\* DashMap::insert / HashMap::insert
MapInsert(m, k, v) == [x \in (DOMAIN m) \cup {k} |-> IF x = k THEN v ELSE m[x]]

\* DashMap::remove
MapRemove(m, k) == [x \in (DOMAIN m) \ {k} |-> m[x]]

\* slice::sort_by_key is a stable sort; keys[i] is the key of s[i]
StableSortBy(s, keys) ==
    LET n == Len(s)
        Rank(i) == Cardinality({j \in 1..n : keys[j] < keys[i] \/ (keys[j] = keys[i] /\ j < i)}) + 1
    IN  [p \in 1..n |-> s[CHOOSE i \in 1..n : Rank(i) = p]]

\* Iterator::position : index of the first element whose test holds, 0 when
\* none; hits[i] is the test of element i
Position(hits) ==
    IF \E i \in 1..Len(hits) : hits[i]
    THEN CHOOSE i \in 1..Len(hits) : hits[i] /\ \A j \in 1..(i - 1) : ~hits[j]
    ELSE 0

----------------------------------------------------------------------------
(* Keys *)

\* format!("{}_VP", trip_id)
VpKey(trip_id) == Append(trip_id, "VP")

\* trip_id.split('_').next()
UidOf(trip_id) == Head(trip_id)

----------------------------------------------------------------------------
(* Dates and times *)

SecondsPerDay == 86400

\* chrono::Datelike::weekday, as day number modulo 7
Weekday(date) == date % 7

\* The "%Y-%m-%d" texts the model uses, with their day numbers
DateOfText ==
    ("1970-01-02" :> 1) @@ ("1970-01-03" :> 2) @@ ("1970-01-04" :> 3) @@ ("1970-01-05" :> 4)

\* NaiveDate::parse_from_str(ssd, "%Y-%m-%d").ok()
ParseDate(text) == IF text \in DOMAIN DateOfText THEN Some(DateOfText[text]) ELSE None

\* NaiveDate::format("%Y%m%d")
FormatDate(date) ==
    CASE date = 1 -> "19700102"
      [] date = 2 -> "19700103"
      [] date = 3 -> "19700104"
      [] date = 4 -> "19700105"
      [] OTHER -> "other"

----------------------------------------------------------------------------
(* Static schedule index *)

TripA == <<"L1", "1">>

TripB == <<"L1", "1", "VP">>

\* A loaded GTFS feed (gtfs_structures::Gtfs): a loop trip L1_1 calling at X
\* twice, running on day 1 by its calendar, and a trip L1_1_VP of the same
\* UID, running on day 2 by a calendar_dates ADD; stop_times are ordered by
\* stop_sequence, departure_time in seconds from midnight.
FeedA ==
    [ stops |-> ("X" :> [code |-> Some("KX")]) @@ ("Y" :> [code |-> None]),
      trips |->
        (TripA :> [ service_id |-> "SA",
                    stop_times |-> << [stop_id |-> "X", stop_sequence |-> 3, departure_time |-> Some(36000)],
                                      [stop_id |-> "Y", stop_sequence |-> 5, departure_time |-> Some(37200)],
                                      [stop_id |-> "X", stop_sequence |-> 7, departure_time |-> None] >> ])
        @@
        (TripB :> [ service_id |-> "SB",
                    stop_times |-> << [stop_id |-> "Y", stop_sequence |-> 1, departure_time |-> Some(90000)] >> ]),
      calendar |-> ("SA" :> [start_date |-> 1, end_date |-> 3, days |-> {1}]),
      calendar_dates |->
        ("SA" :> << [date |-> 3, exception_type |-> "Deleted"] >>)
        @@
        ("SB" :> << [date |-> 2, exception_type |-> "Added"] >>) ]

\* GtfsData::default()
EmptyIndex ==
    [ tiploc_map |-> EmptyMap, uid_index |-> EmptyMap, trips |-> EmptyMap,
      calendar |-> EmptyMap, calendar_dates |-> EmptyMap, trip_start_times |-> EmptyMap ]

\* min over the Some departure times of a trip (and_modify / or_insert)
MinDeparture(stop_times) ==
    LET ds == {Unwrap(stop_times[i].departure_time) :
                  i \in {j \in 1..Len(stop_times) : IsSome(stop_times[j].departure_time)}}
    IN  CHOOSE d \in ds : \A e \in ds : d <= e

\* The trips of `order` whose UID is uid, in that order (uid_index entry)
RECURSIVE CandidatesOf(_, _)
CandidatesOf(uid, order) ==
    IF order = <<>> THEN <<>>
    ELSE IF UidOf(Head(order)) = uid
         THEN <<Head(order)>> \o CandidatesOf(uid, Tail(order))
         ELSE CandidatesOf(uid, Tail(order))

\* GTFSManager::build_indices; `order` is the iteration order of gtfs.trips
BuildIndices(feed, order) ==
    LET codes == {Unwrap(feed.stops[s].code) : s \in {t \in DOMAIN feed.stops : IsSome(feed.stops[t].code)}}
        timed == {t \in DOMAIN feed.trips :
                    \E i \in 1..Len(feed.trips[t].stop_times) : IsSome(feed.trips[t].stop_times[i].departure_time)}
    IN  [ tiploc_map |->
            [k \in (DOMAIN feed.stops) \cup codes |->
                IF k \in DOMAIN feed.stops THEN k
                ELSE CHOOSE s \in DOMAIN feed.stops : feed.stops[s].code = Some(k)],
          uid_index |-> [u \in {UidOf(t) : t \in DOMAIN feed.trips} |-> CandidatesOf(u, order)],
          trips |-> feed.trips,
          calendar |-> feed.calendar,
          calendar_dates |-> feed.calendar_dates,
          trip_start_times |-> [t \in timed |-> MinDeparture(feed.trips[t].stop_times)] ]

\* GTFSManager::get_stop_id
get_stop_id(data, tiploc) ==
    IF tiploc \in DOMAIN data.tiploc_map THEN Some(data.tiploc_map[tiploc]) ELSE None

\* service_runs_on_date consulting the calendar before the exceptions
service_runs_on_date_calendar_first(data, service_id, date) ==
    LET exceptions == IF service_id \in DOMAIN data.calendar_dates
                      THEN data.calendar_dates[service_id] ELSE <<>>
        hit == Position([i \in 1..Len(exceptions) |-> exceptions[i].date = date])
    IN  IF /\ service_id \in DOMAIN data.calendar
           /\ date >= data.calendar[service_id].start_date
           /\ date <= data.calendar[service_id].end_date
           /\ Weekday(date) \in data.calendar[service_id].days
        THEN TRUE
        ELSE hit # 0 /\ exceptions[hit].exception_type = "Added"

\* GTFSManager::service_runs_on_date
service_runs_on_date(data, service_id, date) ==
    LET exceptions == IF service_id \in DOMAIN data.calendar_dates
                      THEN data.calendar_dates[service_id] ELSE <<>>
        hit == Position([i \in 1..Len(exceptions) |-> exceptions[i].date = date])
    IN  IF hit # 0
        THEN exceptions[hit].exception_type = "Added"
        ELSE /\ service_id \in DOMAIN data.calendar
             /\ date >= data.calendar[service_id].start_date
             /\ date <= data.calendar[service_id].end_date
             /\ Weekday(date) \in data.calendar[service_id].days

\* GTFSManager::find_trip_id
find_trip_id(data, uid, date) ==
    LET candidates == IF uid \in DOMAIN data.uid_index THEN data.uid_index[uid] ELSE <<>>
        hit == Position([i \in 1..Len(candidates) |->
                            /\ candidates[i] \in DOMAIN data.trips
                            /\ service_runs_on_date(data, data.trips[candidates[i]].service_id, date)])
    IN  IF hit # 0 THEN Some(candidates[hit]) ELSE None

\* GTFSManager::get_trip_start_time
get_trip_start_time(data, trip_id) ==
    IF trip_id \in DOMAIN data.trip_start_times THEN Some(data.trip_start_times[trip_id]) ELSE None

\* GTFSManager::get_trip_stops : the (stop_id, stop_sequence) pairs of the trip
get_trip_stops(data, trip_id) ==
    IF trip_id \in DOMAIN data.trips
    THEN Some([i \in 1..Len(data.trips[trip_id].stop_times) |->
                 << data.trips[trip_id].stop_times[i].stop_id,
                    data.trips[trip_id].stop_times[i].stop_sequence >>])
    ELSE None

----------------------------------------------------------------------------
(* GTFS-RT entities (gtfs_realtime::FeedEntity and its parts) *)

\* update_trip's or_insert_with closure: a FeedEntity holding a TripUpdate
NewTripEntity(trip_id, start_date) ==
    [ id |-> trip_id,
      trip_update |-> Some([ trip |-> [trip_id |-> Some(trip_id), start_date |-> Some(start_date)],
                             stop_time_update |-> <<>>,
                             vehicle |-> None ]),
      vehicle |-> None ]

\* the or_insert_with closure of update_trip_from_order and process_formation:
\* a FeedEntity holding a VehiclePosition bound to trip_id
NewVpEntity(vp_key, trip_id) ==
    [ id |-> vp_key,
      trip_update |-> None,
      vehicle |-> Some([ trip |-> Some([trip_id |-> Some(trip_id), start_date |-> None]),
                         stop_id |-> None,
                         vehicle |-> None,
                         multi_carriage_details |-> <<>> ]) ]

----------------------------------------------------------------------------
(* Time parsing *)

\* parse_time with `et` looked at first
parse_time_et_first(f, ssd) ==
    LET chosen == IF IsSome(f.et) THEN f.et ELSE f.at
        hm     == Unwrap(chosen)
        date   == ParseDate(ssd)
    IN  IF ~IsSome(chosen) THEN None
        ELSE IF Len(hm) # 2 THEN None
        ELSE IF hm[1] < 0 \/ hm[2] < 0 THEN None
        ELSE IF ~IsSome(date) THEN None
        ELSE IF hm[1] >= 24 \/ hm[2] >= 60 THEN None
        ELSE Some([time |-> Some(Unwrap(date) * SecondsPerDay + hm[1] * 3600 + hm[2] * 60)])

\* processor::parse_time : prefer `at` over `et`; "HH:MM"; ssd at HH:MM:00 as UTC
parse_time(f, ssd) ==
    LET chosen == IF IsSome(f.at) THEN f.at ELSE f.et
        hm     == Unwrap(chosen)
        date   == ParseDate(ssd)
    IN  IF ~IsSome(chosen) THEN None
        ELSE IF Len(hm) # 2 THEN None
        ELSE IF hm[1] < 0 \/ hm[2] < 0 THEN None
        ELSE IF ~IsSome(date) THEN None
        ELSE IF hm[1] >= 24 \/ hm[2] >= 60 THEN None
        ELSE Some([time |-> Some(Unwrap(date) * SecondsPerDay + hm[1] * 3600 + hm[2] * 60)])

\* processor::check_forecast
check_forecast(f) == IF IsSome(f) THEN IsSome(Unwrap(f).et) \/ IsSome(Unwrap(f).at) ELSE FALSE

\* processor::has_time_data
has_time_data(loc) == check_forecast(loc.arr) \/ check_forecast(loc.dep) \/ check_forecast(loc.pass)

\* processor::build_stop_time_update
build_stop_time_update(loc, stop_id, ssd, seq) ==
    [ stop_id |-> Some(stop_id),
      stop_sequence |-> seq,
      arrival |-> IF IsSome(loc.arr) THEN parse_time(Unwrap(loc.arr), ssd) ELSE None,
      departure |-> IF IsSome(loc.dep) THEN parse_time(Unwrap(loc.dep), ssd) ELSE None ]

----------------------------------------------------------------------------
(* Folding a TrainStatus: processor::update_trip *)

\* start_date of a new trip entity: (ssd midnight + first departure) read as
\* Europe/London local time; latest() / the naive fallback both give the date
\* of that local datetime
StartDate(date_parsed, start_secs) == FormatDate(date_parsed + (start_secs \div SecondsPerDay))

\* FindSeq with a cursor that never moves: every visit matches from the start
FindSeqFromStart(trip_stops, idx, stop_id) ==
    LET hits == {i \in idx..Len(trip_stops) : trip_stops[i][1] = stop_id}
    IN  IF hits = {} THEN [found_seq |-> None, idx |-> idx]
        ELSE LET i == CHOOSE h \in hits : \A g \in hits : h <= g
             IN  [found_seq |-> Some(trip_stops[i][2]), idx |-> idx]

\* FindSeq that starts again at the head of the list when nothing is found
\* from the cursor on
FindSeqWrapping(trip_stops, idx, stop_id) ==
    LET hits == {i \in idx..Len(trip_stops) : trip_stops[i][1] = stop_id}
        all  == {i \in 1..Len(trip_stops) : trip_stops[i][1] = stop_id}
        from == IF hits # {} THEN hits ELSE all
    IN  IF from = {} THEN [found_seq |-> None, idx |-> idx]
        ELSE LET i == CHOOSE h \in from : \A g \in from : h <= g
             IN  [found_seq |-> Some(trip_stops[i][2]), idx |-> i + 1]

\* Forward greedy match: the first position >= idx of trip_stops at stop_id.
\* idx is current_static_idx + 1 (sequences are 1-based here).
FindSeq(trip_stops, idx, stop_id) ==
    LET hits == {i \in idx..Len(trip_stops) : trip_stops[i][1] = stop_id}
    IN  IF hits = {} THEN [found_seq |-> None, idx |-> idx]
        ELSE LET i == CHOOSE h \in hits : \A g \in hits : h <= g
             IN  [found_seq |-> Some(trip_stops[i][2]), idx |-> i + 1]

\* IsSuppressed with cisPlatsup suppressing too
IsSuppressedWithCis(plat, loc) ==
    UnwrapOr(plat.platsup, FALSE) \/ UnwrapOr(loc.suppr, FALSE) \/ UnwrapOr(plat.cis_suppressed, FALSE)

\* is_suppressed = plat.platsup.unwrap_or(false) || loc.suppr.unwrap_or(false)
IsSuppressed(plat, loc) == UnwrapOr(plat.platsup, FALSE) \/ UnwrapOr(loc.suppr, FALSE)

\* QueuePlatform with suppression retracting: a suppressed platform queues a blank
QueuePlatformBlanking(pv2, loc, stop_id, found_seq) ==
    IF IsSome(loc.platform) /\ IsSome(Unwrap(loc.platform).number) /\ IsSome(found_seq)
    THEN MapInsert(pv2, Unwrap(found_seq),
                   [ stop_id |-> stop_id,
                     platform |-> IF IsSuppressed(Unwrap(loc.platform), loc)
                                  THEN "" ELSE Unwrap(Unwrap(loc.platform).number) ])
    ELSE pv2

\* QueuePlatform that leaves a sequence already queued as it is
QueuePlatformKeepingFirst(pv2, loc, stop_id, found_seq) ==
    IF IsSome(loc.platform)
       /\ ~IsSuppressed(Unwrap(loc.platform), loc)
       /\ IsSome(Unwrap(loc.platform).number)
       /\ IsSome(found_seq)
       /\ ~HasKey(pv2, Unwrap(found_seq))
    THEN MapInsert(pv2, Unwrap(found_seq), [stop_id |-> stop_id, platform |-> Unwrap(Unwrap(loc.platform).number)])
    ELSE pv2

\* "Platform Logic": the write queued in platform_v2_updates by one location
QueuePlatform(pv2, loc, stop_id, found_seq) ==
    IF IsSome(loc.platform)
       /\ ~IsSuppressed(Unwrap(loc.platform), loc)
       /\ IsSome(Unwrap(loc.platform).number)
       /\ IsSome(found_seq)
    THEN MapInsert(pv2, Unwrap(found_seq), [stop_id |-> stop_id, platform |-> Unwrap(Unwrap(loc.platform).number)])
    ELSE pv2

\* MergeStu keeping, in the entry it replaces, the events the new one lacks
MergeStuKeeping(stus, stu, stop_id, found_seq) ==
    LET at == IF IsSome(found_seq)
              THEN Position([i \in 1..Len(stus) |-> stus[i].stop_sequence = found_seq])
              ELSE Position([i \in 1..Len(stus) |-> stus[i].stop_id = Some(stop_id)])
    IN  IF at # 0
        THEN [stus EXCEPT ![at] = [stu EXCEPT !.arrival = IF IsSome(stu.arrival) THEN stu.arrival ELSE stus[at].arrival,
                                              !.departure = IF IsSome(stu.departure) THEN stu.departure
                                                            ELSE stus[at].departure]]
        ELSE Append(stus, stu)

\* "Update Logic": upsert by sequence when one was found, else by stop_id
MergeStu(stus, stu, stop_id, found_seq) ==
    LET at == IF IsSome(found_seq)
              THEN Position([i \in 1..Len(stus) |-> stus[i].stop_sequence = found_seq])
              ELSE Position([i \in 1..Len(stus) |-> stus[i].stop_id = Some(stop_id)])
    IN  IF at # 0 THEN [stus EXCEPT ![at] = stu] ELSE Append(stus, stu)

\* One iteration of `for loc in &ts.locations`; acc = [stus, idx, pv2]
FoldLocation(data, trip_stops, ssd, acc, loc) ==
    IF ~IsSome(loc.tiploc) THEN acc
    ELSE LET stop_id_opt == get_stop_id(data, Unwrap(loc.tiploc))
         IN  IF ~IsSome(stop_id_opt) THEN acc
             ELSE LET stop_id == Unwrap(stop_id_opt)
                      m == FindSeq(trip_stops, acc.idx, stop_id)
                  IN  [ stus |-> IF has_time_data(loc)
                                 THEN MergeStu(acc.stus,
                                               build_stop_time_update(loc, stop_id, ssd, m.found_seq),
                                               stop_id, m.found_seq)
                                 ELSE acc.stus,
                        idx  |-> m.idx,
                        pv2  |-> QueuePlatform(acc.pv2, loc, stop_id, m.found_seq) ]

RECURSIVE FoldLocations(_, _, _, _, _)
FoldLocations(data, trip_stops, ssd, acc, locs) ==
    IF locs = <<>> THEN acc
    ELSE FoldLocations(data, trip_stops, ssd, FoldLocation(data, trip_stops, ssd, acc, Head(locs)), Tail(locs))

\* SortStus with the sort left out
SortStusOmitted(stus) == stus

\* trip_update.stop_time_update.sort_by_key(|u| u.stop_sequence.unwrap_or(0))
SortStus(stus) == StableSortBy(stus, [i \in 1..Len(stus) |-> UnwrapOr(stus[i].stop_sequence, 0)])

\* platforms_entry.sort_by_key(|p| p.sequence)
SortPlatforms(entry) == StableSortBy(entry, [i \in 1..Len(entry) |-> entry[i].sequence])

\* ApplyPlatforms with every queued write appended
RECURSIVE ApplyPlatformsAppending(_, _, _)
ApplyPlatformsAppending(entry, pv2, ord) ==
    IF ord = <<>> THEN entry
    ELSE LET seq == Head(ord)
             new == [stop_id |-> pv2[seq].stop_id, sequence |-> seq, platform |-> pv2[seq].platform]
         IN  ApplyPlatformsAppending(Append(entry, new), pv2, Tail(ord))

\* `for (seq, (stop_id, plat)) in platform_v2_updates`, visited in order `ord`
RECURSIVE ApplyPlatforms(_, _, _)
ApplyPlatforms(entry, pv2, ord) ==
    IF ord = <<>> THEN entry
    ELSE LET seq == Head(ord)
             at  == Position([i \in 1..Len(entry) |-> entry[i].sequence = seq])
             new == [stop_id |-> pv2[seq].stop_id, sequence |-> seq, platform |-> pv2[seq].platform]
         IN  ApplyPlatforms(IF at # 0 THEN [entry EXCEPT ![at] = new] ELSE Append(entry, new),
                            pv2, Tail(ord))

\* "Update Platform Maps": the platforms_v2 map after the queued writes
UpdatePlatforms(pmap, trip_id, pv2, ord) ==
    IF pv2 = EmptyMap THEN pmap
    ELSE MapInsert(pmap, trip_id,
                   SortPlatforms(ApplyPlatforms(IF HasKey(pmap, trip_id) THEN pmap[trip_id] ELSE <<>>, pv2, ord)))

\* The iteration orders of a HashMap with key set K
Orders(K) == {o \in [1..Cardinality(K) -> K] : \A i, j \in 1..Cardinality(K) : o[i] = o[j] => i = j}

\* update_trip, lines 84-93: the trip the message resolves to; an ssd that
\* does not parse falls back to today (Utc::now)
ResolveTrip(data, ts, today) == find_trip_id(data, ts.uid, UnwrapOr(ParseDate(ts.ssd), today))

\* update_trip, lines 110-142: trip_updates.entry(trip_id).or_insert_with(..)
EnsureTripEntity(tu, data, trip_id, date_parsed) ==
    IF HasKey(tu, trip_id) THEN tu
    ELSE MapInsert(tu, trip_id,
                   NewTripEntity(trip_id, StartDate(date_parsed, UnwrapOr(get_trip_start_time(data, trip_id), 0))))

\* The location loop of update_trip over the stop-time updates `stus` of the
\* trip entity: [stus, idx, pv2] after the last location
LocationLoop(data, ts, trip_id, stus) ==
    FoldLocations(data, UnwrapOr(get_trip_stops(data, trip_id), <<>>), ts.ssd,
                  [stus |-> stus, idx |-> 1, pv2 |-> EmptyMap], ts.locations)

\* update_trip, lines 144-249, on the map tu1 that holds the entity: the
\* location loop, the sort and the platform writes, which visit
\* platform_v2_updates in the order `ord`. `panicked` is the unwrap of line 144
\* on an entity that holds no trip update.
MergeEntity(tu1, st, data, ts, trip_id, ord) ==
    LET entity == tu1[trip_id]
    IN  IF ~IsSome(entity.trip_update)
        THEN [trip_updates |-> tu1, platforms_v2 |-> st.platforms_v2, panicked |-> TRUE]
        ELSE LET trip_update == Unwrap(entity.trip_update)
                 acc == LocationLoop(data, ts, trip_id, trip_update.stop_time_update)
                 tu2 == [tu1 EXCEPT ![trip_id].trip_update =
                            Some([trip_update EXCEPT !.stop_time_update = SortStus(acc.stus)])]
             IN  [ trip_updates |-> tu2,
                   platforms_v2 |-> UpdatePlatforms(st.platforms_v2, trip_id, acc.pv2, ord),
                   panicked |-> FALSE ]

\* MergeStatus with the entity created only for a message that has locations
MergeStatusLazy(st, data, ts, trip_id, date_parsed, ord) ==
    IF ~HasKey(st.trip_updates, trip_id) /\ ts.locations = <<>>
    THEN [trip_updates |-> st.trip_updates, platforms_v2 |-> st.platforms_v2, panicked |-> FALSE]
    ELSE MergeEntity(EnsureTripEntity(st.trip_updates, data, trip_id, date_parsed), st, data, ts, trip_id, ord)

\* update_trip, lines 106-249, after the rid mapping: the entity is created or
\* loaded, then merged into
MergeStatus(st, data, ts, trip_id, date_parsed, ord) ==
    MergeEntity(EnsureTripEntity(st.trip_updates, data, trip_id, date_parsed), st, data, ts, trip_id, ord)

\* processor::update_trip as a whole, for an ssd fallback date `today` and the
\* HashMap order `ord`: [trip_updates, platforms_v2, rid_to_trip_id, panicked]
update_trip(st, data, ts, today, ord) ==
    LET date_parsed == UnwrapOr(ParseDate(ts.ssd), today)
        found == ResolveTrip(data, ts, today)
    IN  IF ~IsSome(found)
        THEN [ trip_updates |-> st.trip_updates, platforms_v2 |-> st.platforms_v2,
               rid_to_trip_id |-> st.rid_to_trip_id, panicked |-> FALSE ]
        ELSE LET r == MergeStatus(st, data, ts, Unwrap(found), date_parsed, ord)
             IN  [ trip_updates |-> r.trip_updates, platforms_v2 |-> r.platforms_v2,
                   rid_to_trip_id |-> MapInsert(st.rid_to_trip_id, ts.rid, Unwrap(found)),
                   panicked |-> r.panicked ]

\* The keys of platform_v2_updates at the end of the location loop
PendingSeqs(st, data, ts, trip_id) ==
    IF HasKey(st.trip_updates, trip_id) /\ ~IsSome(st.trip_updates[trip_id].trip_update)
    THEN {}
    ELSE DOMAIN LocationLoop(data, ts, trip_id, <<>>).pv2

----------------------------------------------------------------------------
(* Folding a TrainOrder: processor::update_trip_from_order *)

\* vp.multi_carriage_details.sort_by_key(|c| c.carriage_sequence.unwrap_or(0))
SortCarriages(cds) == StableSortBy(cds, [i \in 1..Len(cds) |-> UnwrapOr(cds[i].carriage_sequence, 0)])

\* The upsert of one carriage detail, by carriage_sequence
MergeCarriage(cds, cd) ==
    LET at == Position([i \in 1..Len(cds) |-> cds[i].carriage_sequence = cd.carriage_sequence])
    IN  SortCarriages(IF at # 0 THEN [cds EXCEPT ![at] = cd] ELSE Append(cds, cd))

\* The body of the slot loop for slot idx (1 = first, 2 = second, 3 = third);
\* st = [trip_updates, panicked]. `panicked` is the unwrap of line 291 on an
\* entity under {trip_id}_VP that holds no vehicle position.
FoldSlot(st, r2t, data, to, idx, item_opt) ==
    IF st.panicked \/ ~IsSome(item_opt) THEN st
    ELSE LET item == Unwrap(item_opt)
         IN  IF ~IsSome(item.rid) THEN st
             ELSE IF ~HasKey(r2t, Unwrap(item.rid).value) THEN st
             ELSE LET rid_value == Unwrap(item.rid).value
                      trip_id == r2t[rid_value]
                      vp_key == VpKey(trip_id)
                      tu1 == IF HasKey(st.trip_updates, vp_key) THEN st.trip_updates
                             ELSE MapInsert(st.trip_updates, vp_key, NewVpEntity(vp_key, trip_id))
                  IN  IF ~IsSome(tu1[vp_key].vehicle)
                      THEN [trip_updates |-> tu1, panicked |-> TRUE]
                      ELSE LET vp == Unwrap(tu1[vp_key].vehicle)
                               stop == get_stop_id(data, to.tiploc)
                               cd == [ id |-> Some(rid_value),
                                       label |-> item.train_id,
                                       carriage_sequence |-> Some(idx) ]
                               vp2 == [vp EXCEPT
                                         !.stop_id = IF IsSome(stop) THEN stop ELSE @,
                                         !.multi_carriage_details = MergeCarriage(@, cd)]
                           IN  [ trip_updates |-> [tu1 EXCEPT ![vp_key].vehicle = Some(vp2)],
                                 panicked |-> FALSE ]

\* OrderPlatforms with the removed write in place: the platform of the order is
\* recorded for the trip of its first slot
OrderPlatformsWritten(pmap, r2t, data, to) ==
    IF IsSome(to.platform) /\ IsSome(get_stop_id(data, to.tiploc)) /\ IsSome(to.set)
       /\ IsSome(Unwrap(to.set).first) /\ IsSome(Unwrap(Unwrap(to.set).first).rid)
       /\ HasKey(r2t, Unwrap(Unwrap(Unwrap(to.set).first).rid).value)
    THEN LET trip_id == r2t[Unwrap(Unwrap(Unwrap(to.set).first).rid).value]
             entry == IF HasKey(pmap, trip_id) THEN pmap[trip_id] ELSE <<>>
         IN  MapInsert(pmap, trip_id,
                       Append(entry, [ stop_id |-> Unwrap(get_stop_id(data, to.tiploc)),
                                       sequence |-> 0, platform |-> Unwrap(to.platform) ]))
    ELSE pmap

\* update_trip_from_order, lines 260-269 ("1. Update Platform ... REMOVED"):
\* the stop and the platform of the order are looked up and nothing is written
OrderPlatforms(pmap, r2t, data, to) == pmap

\* processor::update_trip_from_order : [trip_updates, panicked]
update_trip_from_order(tu, r2t, data, to) ==
    IF ~IsSome(to.set) THEN [trip_updates |-> tu, panicked |-> FALSE]
    ELSE LET set == Unwrap(to.set)
             s1 == FoldSlot([trip_updates |-> tu, panicked |-> FALSE], r2t, data, to, 1, set.first)
             s2 == FoldSlot(s1, r2t, data, to, 2, set.second)
         IN  FoldSlot(s2, r2t, data, to, 3, set.third)

----------------------------------------------------------------------------
(* Formation, StationMessage, Loading *)

\* coaches.iter().map(|c| c.number.clone()).collect::<Vec<_>>().join("-")
RECURSIVE JoinCoaches(_)
JoinCoaches(coaches) ==
    IF coaches = <<>> THEN ""
    ELSE IF Len(coaches) = 1 THEN coaches[1].number
    ELSE coaches[1].number \o "-" \o JoinCoaches(Tail(coaches))

\* process_formation creating the sidecar entity of a rid it does not know
process_formation_on_miss(tu, r2t, fm) ==
    IF HasKey(tu, VpKey(<<fm.rid>>)) THEN tu
    ELSE MapInsert(tu, VpKey(<<fm.rid>>), NewVpEntity(VpKey(<<fm.rid>>), <<fm.rid>>))

\* processor::process_formation : the trip_updates map afterwards
process_formation(tu, r2t, fm) ==
    IF ~HasKey(r2t, fm.rid) THEN tu
    ELSE LET trip_id == r2t[fm.rid]
             label == JoinCoaches(fm.coaches)
             tu1 == IF HasKey(tu, trip_id) /\ IsSome(tu[trip_id].trip_update)
                    THEN [tu EXCEPT ![trip_id].trip_update =
                            Some([Unwrap(@) EXCEPT !.vehicle = Some([label |-> Some(label)])])]
                    ELSE tu
             vp_key == VpKey(trip_id)
             tu2 == IF HasKey(tu1, vp_key) THEN tu1
                    ELSE MapInsert(tu1, vp_key, NewVpEntity(vp_key, trip_id))
         IN  IF IsSome(tu2[vp_key].vehicle)
             THEN [tu2 EXCEPT ![vp_key].vehicle =
                     Some([Unwrap(@) EXCEPT !.vehicle = Some([label |-> Some(label)])])]
             ELSE tu2

\* processor::process_station_message : format!("{}: {}", category, message)
process_station_message(sm, msg) == MapInsert(sm, msg.id, msg.category \o ": " \o msg.message)

----------------------------------------------------------------------------
(* Inputs: the records a Push Port frame may carry *)

Fc(et, at) == [et |-> et, at |-> at]

Plat(number, platsup, cis, conf) ==
    [number |-> number, platsup |-> platsup, cis_suppressed |-> cis, conf |-> conf]

Loc(tiploc, platform, suppr, arr, dep, pass) ==
    [tiploc |-> tiploc, platform |-> platform, suppr |-> suppr, arr |-> arr, dep |-> dep, pass |-> pass]

Status(rid, uid, ssd, locations) == [rid |-> rid, uid |-> uid, ssd |-> ssd, locations |-> locations]

Item(rid, train_id) == [rid |-> rid, train_id |-> train_id]

Order(tiploc, platform, set) == [tiploc |-> tiploc, platform |-> platform, set |-> set]

\* All sequences over S of length at most n
SeqsUpTo(S, n) == UNION {[1..k -> S] : k \in 0..n}

\* "10:00" and "10:40"
T1000 == <<10, 0>>

T1040 == <<10, 40>>

\* "23:58"
T2358 == <<23, 58>>

\* Dates Utc::now() may give when ssd does not parse
Todays == {1, 2}

Day1 == "1970-01-02"

Day2 == "1970-01-03"

\* Records folded in one run of the general model, and its longest location list
MaxFrames == 3

MaxLocs == 2

\* (rid, uid, ssd) of the TrainStatus records: L1 on day 1 resolves to L1_1,
\* on day 2 to L1_1_VP; U9 is no UID of the index
StatusHeaders == { <<"R1", "L1", Day1>>, <<"R2", "L1", Day2>>, <<"R1", "U9", Day1>> }

\* Locations of the general model: a stop with an arrival forecast and a
\* published platform, and a stop with forecasts alone
StatusLocations ==
    { Loc(Some("X"), Some(Plat(Some("2"), None, None, None)), None, Some(Fc(Some(T1000), None)), None, None),
      Loc(Some("Y"), None, None, Some(Fc(Some(T1040), None)), Some(Fc(None, Some(T1040))), None) }

StatusInputs ==
    { Status(h[1], h[2], h[3], ls) : h \in StatusHeaders, ls \in SeqsUpTo(StatusLocations, MaxLocs) }

OrderInputs ==
    { Order(tpl, Some("4"), set) :
        tpl \in {"X", "Q"},
        set \in { None,
                  Some([first |-> Some(Item(Some([value |-> "R1"]), Some("1A01"))), second |-> None, third |-> None]),
                  Some([first |-> Some(Item(Some([value |-> "R2"]), None)),
                        second |-> Some(Item(Some([value |-> "R1"]), None)),
                        third |-> Some(Item(Some([value |-> "R9"]), None))]),
                  Some([first |-> None, second |-> Some(Item(None, Some("1A01"))),
                        third |-> Some(Item(Some([value |-> "R2"]), Some("2B02")))]) } }

FormationInputs ==
    { [rid |-> r, coaches |-> cs] :
        r \in {"R1", "R2", "R9"},
        cs \in { <<>>, << [number |-> "A"], [number |-> "B"], [number |-> "C"] >> } }

MessageInputs == { [id |-> "M1", category |-> c, message |-> "late"] : c \in {"Train", "Misc"} }

LoadingInputs == { [rid |-> r] : r \in {"R1", "R9"} }

----------------------------------------------------------------------------
(* The STOMP worker inside process_pmap *)

\* ./data before the first snapshot: neither trips.pb nor platforms_v2.bin
NoFiles == [trips |-> None, platforms_v2 |-> None]

\* No lookup in progress
NoLookup ==
    [ pc |-> "idle", call |-> "none", arg |-> None, date |-> 0, cands |-> <<>>, i |-> 0,
      sid |-> None, result |-> None, held |-> None ]

\* The index loaded and in service, the updater asleep, no lookup in progress
NoIndexWork == [upd |-> [pc |-> "sleeping", new_data |-> None, last |-> "ok"], rd |-> NoLookup]

\* No connection attempted yet
NoLink == [attempts |-> 0, received |-> <<>>, acks |-> <<>>, sent |-> <<>>, greeted |-> 0]

\* No cleanup pass under way, and no task holding or taking a guard
NoPass == [pc |-> "idle", threshold_secs |-> 0, now |-> 0, trips_to_remove |-> {}, rids_to_remove |-> {}]

\* The stream processor (main.rs 134-152), a cleanup pass, the snapshot
\* writer (54-61), an HTTP handler (69-110) and the updater thread
\* (static_data.rs 50-68)
Tasks == {"stream", "gc", "save", "http", "updater"}

\* A task between two operations: it holds no guard and asks for none
NoGuard == [op |-> "none", at |-> 0]

NoTasks == [gc |-> NoPass, locks |-> [t \in Tasks |-> NoGuard]]

NoRecord == [kind |-> "none", msg |-> None, trip_id |-> None, date |-> 0]

NoMaps ==
    [ trip_updates |-> EmptyMap, platforms_v2 |-> EmptyMap, rid_to_trip_id |-> EmptyMap,
      station_messages |-> EmptyMap ]

Maps ==
    [ trip_updates |-> trip_updates, platforms_v2 |-> platforms_v2, rid_to_trip_id |-> rid_to_trip_id,
      station_messages |-> station_messages ]

Init ==
    /\ trip_updates = EmptyMap
    /\ platforms_v2 = EmptyMap
    /\ rid_to_trip_id = EmptyMap
    /\ station_messages = EmptyMap
    /\ gtfs = BuildIndices(FeedA, <<TripA, TripB>>)
    /\ pc = "idle"
    /\ cur = NoRecord
    /\ before = NoMaps
    /\ frames = 0
    /\ disk = NoFiles
    /\ saved = NoMaps
    /\ tasks = NoTasks
    /\ link = NoLink
    /\ sched = NoIndexWork

\* update_trip, lines 84-96: resolve the trip; on a miss return, else insert
\* the rid mapping
TSResolve(inputs, limit) ==
    /\ pc = "idle"
    /\ frames < limit
    /\ \E ts \in inputs :
         \E today \in (IF IsSome(ParseDate(ts.ssd)) THEN {0} ELSE Todays) :
            LET date == UnwrapOr(ParseDate(ts.ssd), today)
                found == find_trip_id(gtfs, ts.uid, date)
            IN  /\ cur' = [kind |-> "TS", msg |-> ts, trip_id |-> found, date |-> date]
                /\ IF IsSome(found)
                   THEN /\ rid_to_trip_id' = MapInsert(rid_to_trip_id, ts.rid, Unwrap(found))
                        /\ pc' = "ts_merge"
                   ELSE /\ UNCHANGED rid_to_trip_id
                        /\ pc' = "done"
    /\ before' = Maps
    /\ frames' = frames + 1
    /\ UNCHANGED <<trip_updates, platforms_v2, station_messages, gtfs, aux>>

\* update_trip, lines 106-249: the rest of the fold
TSMerge ==
    /\ pc = "ts_merge"
    /\ LET trip_id == Unwrap(cur.trip_id)
       IN  \E ord \in Orders(PendingSeqs(Maps, gtfs, cur.msg, trip_id)) :
              LET r == MergeStatus(Maps, gtfs, cur.msg, trip_id, cur.date, ord)
              IN  /\ trip_updates' = r.trip_updates
                  /\ platforms_v2' = r.platforms_v2
                  /\ pc' = IF r.panicked THEN "panicked" ELSE "done"
    /\ UNCHANGED <<rid_to_trip_id, station_messages, gtfs, cur, before, frames, aux>>

\* process_pmap: update_trip_from_order(&to, state)
FoldOrder(inputs, limit) ==
    /\ pc = "idle"
    /\ frames < limit
    /\ \E to \in inputs :
         LET r == update_trip_from_order(trip_updates, rid_to_trip_id, gtfs, to)
         IN  /\ trip_updates' = r.trip_updates
             /\ platforms_v2' = OrderPlatforms(platforms_v2, rid_to_trip_id, gtfs, to)
             /\ pc' = IF r.panicked THEN "panicked" ELSE "done"
             /\ cur' = [kind |-> "TO", msg |-> to, trip_id |-> None, date |-> 0]
    /\ before' = Maps
    /\ frames' = frames + 1
    /\ UNCHANGED <<rid_to_trip_id, station_messages, gtfs, aux>>

\* process_pmap: process_formation(&formation, state)
FoldFormation(inputs, limit) ==
    /\ pc = "idle"
    /\ frames < limit
    /\ \E fm \in inputs :
         /\ trip_updates' = process_formation(trip_updates, rid_to_trip_id, fm)
         /\ cur' = [kind |-> "FM", msg |-> fm, trip_id |-> None, date |-> 0]
    /\ pc' = "done"
    /\ before' = Maps
    /\ frames' = frames + 1
    /\ UNCHANGED <<platforms_v2, rid_to_trip_id, station_messages, gtfs, aux>>

\* process_pmap: process_station_message(&msg, state)
FoldMessage(inputs, limit) ==
    /\ pc = "idle"
    /\ frames < limit
    /\ \E sm \in inputs :
         /\ station_messages' = process_station_message(station_messages, sm)
         /\ cur' = [kind |-> "OW", msg |-> sm, trip_id |-> None, date |-> 0]
    /\ pc' = "done"
    /\ before' = Maps
    /\ frames' = frames + 1
    /\ UNCHANGED <<trip_updates, platforms_v2, rid_to_trip_id, gtfs, aux>>

\* process_pmap: process_loading(load, state) reads rid_to_trip_id and writes nothing
FoldLoading(inputs, limit) ==
    /\ pc = "idle"
    /\ frames < limit
    /\ \E ld \in inputs :
         cur' = [kind |-> "LO", msg |-> ld, trip_id |-> None, date |-> 0]
    /\ pc' = "done"
    /\ before' = Maps
    /\ frames' = frames + 1
    /\ UNCHANGED <<trip_updates, platforms_v2, rid_to_trip_id, station_messages, gtfs, aux>>

\* The handler returns to the frame loop; its locals are dropped
Return ==
    /\ pc = "done"
    /\ pc' = "idle"
    /\ cur' = NoRecord
    /\ before' = NoMaps
    /\ UNCHANGED <<trip_updates, platforms_v2, rid_to_trip_id, station_messages, gtfs, frames, aux>>

Next ==
    \/ TSResolve(StatusInputs, MaxFrames)
    \/ TSMerge
    \/ FoldOrder(OrderInputs, MaxFrames)
    \/ FoldFormation(FormationInputs, MaxFrames)
    \/ FoldMessage(MessageInputs, MaxFrames)
    \/ FoldLoading(LoadingInputs, MaxFrames)
    \/ Return

Spec == Init /\ [][Next]_vars

----------------------------------------------------------------------------
(* The stop-time merge alone: TrainStatus records of up to MaxLocs          *)
(* locations with forecasts, for the loop trip and for L1_1_VP              *)

MaxFolds == 2

StopLocations ==
    { Loc(Some("X"), None, None, Some(Fc(Some(T1000), None)), None, None),
      Loc(Some("X"), None, None, Some(Fc(Some(T1040), None)), None, None),
      Loc(Some("Y"), None, None, None, Some(Fc(Some(T1000), Some(T1040))), None) }

StopInputs ==
    { Status("R1", "L1", d, ls) : d \in {Day1, Day2}, ls \in SeqsUpTo(StopLocations, MaxLocs) }

NextStops ==
    \/ TSResolve(StopInputs, MaxFolds)
    \/ TSMerge
    \/ Return

SpecStops == Init /\ [][NextStops]_vars

----------------------------------------------------------------------------
(* Loop routes: TrainStatus records of up to MaxVisits locations for the    *)
(* loop trip L1_1 (X at sequences 3 and 7, Y at 5 between them)             *)

MaxVisits == 3

LoopLocations ==
    { Loc(Some("X"), None, None, Some(Fc(Some(T1000), None)), None, None),
      Loc(Some("X"), None, None, Some(Fc(None, Some(T1040))), Some(Fc(Some(T1040), None)), None),
      Loc(Some("X"), None, None, None, None, None),
      Loc(Some("Y"), None, None, None, None, None) }

LoopInputs == { Status("R1", "L1", Day1, ls) : ls \in SeqsUpTo(LoopLocations, MaxVisits) }

NextLoop ==
    \/ TSResolve(LoopInputs, MaxFolds)
    \/ TSMerge
    \/ Return

SpecLoop == Init /\ [][NextLoop]_vars

----------------------------------------------------------------------------
(* The platform table alone: every combination of the suppression flags at  *)
(* one stop, and lists of published and suppressed platforms                *)

OptBool == {None, Some(TRUE), Some(FALSE)}

FlagLocations ==
    { Loc(Some("X"), Some(Plat(Some(n), platsup, cis, conf)), suppr, None, None, None) :
        n \in {"2", "4"}, platsup \in OptBool, suppr \in OptBool,
        cis \in {None, Some(TRUE)}, conf \in {None, Some(FALSE)} }

PlatformLocations ==
    { Loc(Some("X"), Some(Plat(Some("2"), None, None, None)), None, None, None, None),
      Loc(Some("X"), Some(Plat(Some("4"), None, Some(TRUE), Some(TRUE))), None, None, None, None),
      Loc(Some("X"), Some(Plat(Some("4"), Some(TRUE), None, None)), None, None, None, None),
      Loc(Some("Y"), Some(Plat(Some("2"), None, None, None)), Some(TRUE), None, None, None),
      Loc(Some("Y"), Some(Plat(Some("4"), Some(FALSE), None, None)), Some(FALSE), None, None, None),
      Loc(Some("Y"), Some(Plat(None, None, None, None)), None, None, None, None) }

PlatformInputs ==
    { Status("R1", "L1", Day1, <<l>>) : l \in FlagLocations }
    \cup
    { Status("R1", "L1", d, ls) : d \in {Day1, Day2}, ls \in SeqsUpTo(PlatformLocations, MaxLocs) }

NextPlatforms ==
    \/ TSResolve(PlatformInputs, MaxFolds)
    \/ TSMerge
    \/ Return

SpecPlatforms == Init /\ [][NextPlatforms]_vars

----------------------------------------------------------------------------
(* Snapshot and restore: persistence::save_state / load_state.            *)
(* A protobuf message on the wire is the sequence of <<name, value>> of    *)
(* the fields it carries: an optional field is there when it is Some, a    *)
(* repeated field once per element. A bincode value is the sequence of its *)
(* parts in declaration order.                                             *)

\* prost: an optional field is encoded when it holds a value
Field(name, opt) == IF IsSome(opt) THEN << <<name, Unwrap(opt)>> >> ELSE <<>>

\* prost: a repeated field is encoded once per element, in order
Repeated(name, vals) == [i \in 1..Len(vals) |-> <<name, vals[i]>>]

\* prost decode of an optional field: the last occurrence on the wire
GetField(wire, name) ==
    LET at == {i \in 1..Len(wire) : wire[i][1] = name}
    IN  IF at = {} THEN None ELSE Some(wire[CHOOSE i \in at : \A j \in at : j <= i][2])

\* prost decode of a repeated field: every occurrence, in order
GetRepeated(wire, name) ==
    LET hits == SelectSeq(wire, LAMBDA f : f[1] = name)
    IN  [i \in 1..Len(hits) |-> hits[i][2]]

\* StopTimeEvent
EncodeEvent(e) == Field("time", e.time)

DecodeEvent(wire) == [time |-> GetField(wire, "time")]

\* StopTimeUpdate
EncodeStu(u) ==
    Field("stop_sequence", u.stop_sequence)
    \o Field("stop_id", u.stop_id)
    \o Field("arrival", IF IsSome(u.arrival) THEN Some(EncodeEvent(Unwrap(u.arrival))) ELSE None)
    \o Field("departure", IF IsSome(u.departure) THEN Some(EncodeEvent(Unwrap(u.departure))) ELSE None)

DecodeStu(wire) ==
    [ stop_id |-> GetField(wire, "stop_id"),
      stop_sequence |-> GetField(wire, "stop_sequence"),
      arrival |-> IF IsSome(GetField(wire, "arrival"))
                  THEN Some(DecodeEvent(Unwrap(GetField(wire, "arrival")))) ELSE None,
      departure |-> IF IsSome(GetField(wire, "departure"))
                    THEN Some(DecodeEvent(Unwrap(GetField(wire, "departure")))) ELSE None ]

\* TripDescriptor
EncodeTrip(t) == Field("trip_id", t.trip_id) \o Field("start_date", t.start_date)

DecodeTrip(wire) == [trip_id |-> GetField(wire, "trip_id"), start_date |-> GetField(wire, "start_date")]

\* VehicleDescriptor
EncodeDescriptor(d) == Field("label", d.label)

DecodeDescriptor(wire) == [label |-> GetField(wire, "label")]

\* vehicle_position::CarriageDetails
EncodeCarriage(c) ==
    Field("id", c.id) \o Field("label", c.label) \o Field("carriage_sequence", c.carriage_sequence)

DecodeCarriage(wire) ==
    [ id |-> GetField(wire, "id"),
      label |-> GetField(wire, "label"),
      carriage_sequence |-> GetField(wire, "carriage_sequence") ]

\* TripUpdate: `trip` is a required field
EncodeTripUpdate(tu) ==
    << <<"trip", EncodeTrip(tu.trip)>> >>
    \o Repeated("stop_time_update", [i \in 1..Len(tu.stop_time_update) |-> EncodeStu(tu.stop_time_update[i])])
    \o Field("vehicle", IF IsSome(tu.vehicle) THEN Some(EncodeDescriptor(Unwrap(tu.vehicle))) ELSE None)

DecodeTripUpdate(wire) ==
    LET stus == GetRepeated(wire, "stop_time_update")
    IN  [ trip |-> DecodeTrip(UnwrapOr(GetField(wire, "trip"), <<>>)),
          stop_time_update |-> [i \in 1..Len(stus) |-> DecodeStu(stus[i])],
          vehicle |-> IF IsSome(GetField(wire, "vehicle"))
                      THEN Some(DecodeDescriptor(Unwrap(GetField(wire, "vehicle")))) ELSE None ]

\* VehiclePosition
EncodeVehicle(vp) ==
    Field("trip", IF IsSome(vp.trip) THEN Some(EncodeTrip(Unwrap(vp.trip))) ELSE None)
    \o Field("stop_id", vp.stop_id)
    \o Field("vehicle", IF IsSome(vp.vehicle) THEN Some(EncodeDescriptor(Unwrap(vp.vehicle))) ELSE None)
    \o Repeated("multi_carriage_details",
                [i \in 1..Len(vp.multi_carriage_details) |-> EncodeCarriage(vp.multi_carriage_details[i])])

DecodeVehicle(wire) ==
    LET cds == GetRepeated(wire, "multi_carriage_details")
    IN  [ trip |-> IF IsSome(GetField(wire, "trip"))
                   THEN Some(DecodeTrip(Unwrap(GetField(wire, "trip")))) ELSE None,
          stop_id |-> GetField(wire, "stop_id"),
          vehicle |-> IF IsSome(GetField(wire, "vehicle"))
                      THEN Some(DecodeDescriptor(Unwrap(GetField(wire, "vehicle")))) ELSE None,
          multi_carriage_details |-> [i \in 1..Len(cds) |-> DecodeCarriage(cds[i])] ]

\* FeedEntity: `id` is a required field
EncodeEntity(e) ==
    << <<"id", e.id>> >>
    \o Field("trip_update", IF IsSome(e.trip_update) THEN Some(EncodeTripUpdate(Unwrap(e.trip_update))) ELSE None)
    \o Field("vehicle", IF IsSome(e.vehicle) THEN Some(EncodeVehicle(Unwrap(e.vehicle))) ELSE None)

DecodeEntity(wire) ==
    [ id |-> UnwrapOr(GetField(wire, "id"), <<>>),
      trip_update |-> IF IsSome(GetField(wire, "trip_update"))
                      THEN Some(DecodeTripUpdate(Unwrap(GetField(wire, "trip_update")))) ELSE None,
      vehicle |-> IF IsSome(GetField(wire, "vehicle"))
                  THEN Some(DecodeVehicle(Unwrap(GetField(wire, "vehicle")))) ELSE None ]

\* EncodeFeed leaving out the entities that hold no trip update
EncodeFeedTripsOnly(tu, ord) ==
    << <<"header", << <<"gtfs_realtime_version", "2.0">> >> >> >>
    \o Repeated("entity",
                [i \in 1..Len(SelectSeq(ord, LAMBDA k : IsSome(tu[k].trip_update))) |->
                    EncodeEntity(tu[SelectSeq(ord, LAMBDA k : IsSome(tu[k].trip_update))[i]])])

\* save_state, lines 16-29: trips.pb, a FeedMessage whose header carries the
\* version and whose entities are those of trip_updates in the iteration
\* order `ord` of the map
EncodeFeed(tu, ord) ==
    << <<"header", << <<"gtfs_realtime_version", "2.0">> >> >> >>
    \o Repeated("entity", [i \in 1..Len(ord) |-> EncodeEntity(tu[ord[i]])])

\* load_state, lines 46-59: every entity of the file inserted under its id
RECURSIVE InsertEntities(_, _)
InsertEntities(tu, entities) ==
    IF entities = <<>> THEN tu
    ELSE InsertEntities(MapInsert(tu, DecodeEntity(Head(entities)).id, DecodeEntity(Head(entities))),
                        Tail(entities))

\* load_state, line 51: FeedMessage::decode fails on a file that ends inside
\* a field (the field "cut" stands for the bytes of the field cut short)
FeedDecodes(wire) == \A i \in 1..Len(wire) : wire[i][1] # "cut"

\* load_state, lines 46-59: a missing file and a file that does not decode
\* leave the map as it is
LoadTrips(tu, file) ==
    IF ~IsSome(file) THEN tu
    ELSE IF ~FeedDecodes(Unwrap(file)) THEN tu
    ELSE InsertEntities(tu, GetRepeated(Unwrap(file), "entity"))

\* save_state, lines 32-39: platforms_v2.bin, the (key, list) pairs of the map
\* in the iteration order `ord`, a PlatformInfo as its fields in declaration order
SerializePlatforms(pmap, ord) ==
    [ i \in 1..Len(ord) |->
        << ord[i],
           [n \in 1..Len(pmap[ord[i]]) |->
              <<pmap[ord[i]][n].stop_id, pmap[ord[i]][n].sequence, pmap[ord[i]][n].platform>>] >> ]

\* load_state, lines 64-77: every pair of the file inserted
RECURSIVE InsertPlatforms(_, _)
InsertPlatforms(pmap, pairs) ==
    IF pairs = <<>> THEN pmap
    ELSE LET list == Head(pairs)[2]
         IN  InsertPlatforms(
                 MapInsert(pmap, Head(pairs)[1],
                           [n \in 1..Len(list) |->
                              [stop_id |-> list[n][1], sequence |-> list[n][2], platform |-> list[n][3]]]),
                 Tail(pairs))

\* load_state, lines 67-68: bincode::deserialize_from fails on a file that
\* ends before the map is complete (the pair of key <<"cut">> stands for the
\* missing rest)
PlatformsDecode(pairs) == \A i \in 1..Len(pairs) : pairs[i][1] # <<"cut">>

\* load_state, lines 64-77: nothing is inserted unless the whole file decodes
LoadPlatforms(pmap, file) ==
    IF ~IsSome(file) THEN pmap
    ELSE IF ~PlatformsDecode(Unwrap(file)) THEN pmap
    ELSE InsertPlatforms(pmap, Unwrap(file))

\* load_state giving up at a trips.pb that does not decode
load_state_strict(tu, pmap, files) ==
    IF IsSome(files.trips) /\ ~FeedDecodes(Unwrap(files.trips))
    THEN [trip_updates |-> tu, platforms_v2 |-> pmap, result |-> "Err"]
    ELSE [ trip_updates |-> LoadTrips(tu, files.trips),
           platforms_v2 |-> LoadPlatforms(pmap, files.platforms_v2),
           result |-> IF IsSome(files.platforms_v2) /\ ~PlatformsDecode(Unwrap(files.platforms_v2))
                      THEN "Err" ELSE "Ok" ]

\* persistence::load_state on the maps tu and pmap: the maps afterwards and
\* the Result; the `?` of line 68 returns the Err of a platforms_v2.bin that
\* does not decode
load_state(tu, pmap, files) ==
    [ trip_updates |-> LoadTrips(tu, files.trips),
      platforms_v2 |-> LoadPlatforms(pmap, files.platforms_v2),
      result |-> IF IsSome(files.platforms_v2) /\ ~PlatformsDecode(Unwrap(files.platforms_v2))
                 THEN "Err" ELSE "Ok" ]

\* persistence::save_state, run by the persistence task whatever the STOMP
\* worker is doing
SaveState ==
    /\ \E ord \in Orders(DOMAIN trip_updates) :
          \E pord \in Orders(DOMAIN platforms_v2) :
              disk' = [ trips |-> Some(EncodeFeed(trip_updates, ord)),
                        platforms_v2 |-> Some(SerializePlatforms(platforms_v2, pord)) ]
    /\ saved' = Maps
    /\ UNCHANGED <<trip_updates, platforms_v2, rid_to_trip_id, station_messages, gtfs, pc, cur, before, frames,
                   link, sched, tasks>>

\* The process starts again: AppState::new, then persistence::load_state,
\* whose Err main only logs (main.rs 39-41)
LoadState ==
    /\ LET r == load_state(EmptyMap, EmptyMap, disk)
       IN  /\ trip_updates' = r.trip_updates
           /\ platforms_v2' = r.platforms_v2
           /\ cur' = [kind |-> "LOAD", msg |-> Some(r.result), trip_id |-> None, date |-> 0]
    /\ rid_to_trip_id' = EmptyMap
    /\ station_messages' = EmptyMap
    /\ pc' = "done"
    /\ before' = NoMaps
    /\ UNCHANGED <<gtfs, frames, disk, saved, tasks, link, sched>>

\* Records folded before and between snapshots
SnapshotStatus ==
    { Status(h[1], "L1", h[2], ls) :
        h \in { <<"R1", Day1>>, <<"R2", Day2>> },
        ls \in { <<>>,
                 << Loc(Some("X"), Some(Plat(Some("2"), None, None, None)), None,
                        Some(Fc(Some(T1000), None)), None, None),
                    Loc(Some("Y"), Some(Plat(Some("4"), None, None, None)), None,
                        Some(Fc(Some(T1040), None)), Some(Fc(None, Some(T1040))), None),
                    Loc(Some("Y"), None, None, None, None, Some(Fc(Some(T1040), None))) >> } }

SnapshotOrders ==
    { Order("X", Some("4"),
            Some([first |-> Some(Item(Some([value |-> "R1"]), Some("1A01"))),
                  second |-> Some(Item(Some([value |-> "R2"]), None)), third |-> None])) }

SnapshotFormations == { [rid |-> "R1", coaches |-> << [number |-> "A"], [number |-> "B"] >>] }

NextSnapshot ==
    \/ TSResolve(SnapshotStatus, MaxFrames)
    \/ TSMerge
    \/ FoldOrder(SnapshotOrders, MaxFrames)
    \/ FoldFormation(SnapshotFormations, MaxFrames)
    \/ Return
    \/ SaveState
    \/ LoadState

SpecSnapshot == Init /\ [][NextSnapshot]_vars

\* A file of ./data is left cut short (save_state lines 28-29 and 38-39 write
\* in place: File::create empties the file, the bytes follow): trips.pb ends
\* inside its field n + 1, platforms_v2.bin after n of its pairs
Damage ==
    /\ \/ /\ IsSome(disk.trips)
          /\ FeedDecodes(Unwrap(disk.trips))
          /\ \E n \in 0..(Len(Unwrap(disk.trips)) - 1) :
                disk' = [disk EXCEPT !.trips = Some(Append(SubSeq(Unwrap(disk.trips), 1, n), <<"cut", <<>>>>))]
       \/ /\ IsSome(disk.platforms_v2)
          /\ PlatformsDecode(Unwrap(disk.platforms_v2))
          /\ \E n \in 0..Len(Unwrap(disk.platforms_v2)) :
                disk' = [disk EXCEPT !.platforms_v2 =
                            Some(Append(SubSeq(Unwrap(disk.platforms_v2), 1, n), << <<"cut">>, <<>> >>))]
    /\ UNCHANGED <<trip_updates, platforms_v2, rid_to_trip_id, station_messages, gtfs, pc, cur, before, frames,
                   saved, tasks, link, sched>>

\* Snapshots, damage to the files, and restarts between TrainStatus folds
NextRestore ==
    \/ TSResolve(SnapshotStatus, MaxFolds)
    \/ TSMerge
    \/ Return
    \/ SaveState
    \/ Damage
    \/ LoadState

SpecRestore == Init /\ [][NextRestore]_vars

----------------------------------------------------------------------------
(* Garbage collection: gc::cleanup_old_trips *)

\* cleanup_old_trips, lines 20-35: the latest arrival/departure time over the
\* stop-time updates, None when no update carries a time
RECURSIVE MaxTime(_, _)
MaxTime(stus, max_time) ==
    IF stus = <<>> THEN max_time
    ELSE LET stu == Head(stus)
             m1 == IF IsSome(stu.arrival) /\ IsSome(Unwrap(stu.arrival).time)
                   THEN LET t == Unwrap(Unwrap(stu.arrival).time)
                        IN  Some(IF IsSome(max_time) /\ Unwrap(max_time) > t THEN Unwrap(max_time) ELSE t)
                   ELSE max_time
             m2 == IF IsSome(stu.departure) /\ IsSome(Unwrap(stu.departure).time)
                   THEN LET t == Unwrap(Unwrap(stu.departure).time)
                        IN  Some(IF IsSome(m1) /\ Unwrap(m1) > t THEN Unwrap(m1) ELSE t)
                   ELSE m1
         IN  MaxTime(Tail(stus), m2)

\* Expired with the comparison last_activity + threshold <= now
ExpiredInclusive(tu, threshold_secs, now) ==
    { k \in DOMAIN tu :
        LET max_time == IF IsSome(tu[k].trip_update)
                        THEN MaxTime(Unwrap(tu[k].trip_update).stop_time_update, None) ELSE None
        IN  IsSome(max_time) /\ Unwrap(max_time) + threshold_secs <= now }

\* cleanup_old_trips, lines 16-50: trips_to_remove
Expired(tu, threshold_secs, now) ==
    { k \in DOMAIN tu :
        LET max_time == IF IsSome(tu[k].trip_update)
                        THEN MaxTime(Unwrap(tu[k].trip_update).stop_time_update, None) ELSE None
        IN  IsSome(max_time) /\ Unwrap(max_time) + threshold_secs < now }

\* cleanup_old_trips that removes the expired trips from trip_updates alone
cleanup_old_trips_entities_only(st, threshold_secs, now) ==
    LET trips_to_remove == Expired(st.trip_updates, threshold_secs, now)
    IN  [ trip_updates |-> [k \in DOMAIN st.trip_updates \ trips_to_remove |-> st.trip_updates[k]],
          platforms_v2 |-> st.platforms_v2,
          rid_to_trip_id |-> st.rid_to_trip_id,
          station_messages |-> st.station_messages ]

\* gc::cleanup_old_trips over st = Maps, at clock reading `now`
cleanup_old_trips(st, threshold_secs, now) ==
    LET trips_to_remove == Expired(st.trip_updates, threshold_secs, now)
        rids_to_remove == {r \in DOMAIN st.rid_to_trip_id : st.rid_to_trip_id[r] \in trips_to_remove}
    IN  [ trip_updates |-> [k \in DOMAIN st.trip_updates \ trips_to_remove |-> st.trip_updates[k]],
          platforms_v2 |-> [k \in DOMAIN st.platforms_v2 \ trips_to_remove |-> st.platforms_v2[k]],
          rid_to_trip_id |-> [r \in DOMAIN st.rid_to_trip_id \ rids_to_remove |-> st.rid_to_trip_id[r]],
          station_messages |-> st.station_messages ]

\* Thresholds and clock readings around the last times of the folded trips
\* (10:40 on day 1 is 124800, on day 2 it is 211200)
GcThresholds == {0, 3600}

GcClocks == {124800, 124801, 128400, 128401, 211200, 214800}

\* Records whose latest time is 10:40 on their day, and records without times
GcStatus ==
    { Status(h[1], "L1", h[2], ls) :
        h \in { <<"R1", Day1>>, <<"R2", Day2>> },
        ls \in { <<>>,
                 << Loc(Some("X"), Some(Plat(Some("2"), None, None, None)), None,
                        Some(Fc(Some(T1000), None)), None, None),
                    Loc(Some("Y"), None, None,
                        Some(Fc(Some(T1000), None)), Some(Fc(None, Some(T1040))), None) >> } }

Cleanup ==
    /\ pc = "idle"
    /\ \E threshold_secs \in GcThresholds, now \in GcClocks :
         LET r == cleanup_old_trips(Maps, threshold_secs, now)
         IN  /\ trip_updates' = r.trip_updates
             /\ platforms_v2' = r.platforms_v2
             /\ rid_to_trip_id' = r.rid_to_trip_id
             /\ station_messages' = r.station_messages
             /\ cur' = [kind |-> "GC", msg |-> [threshold |-> threshold_secs, now |-> now],
                        trip_id |-> None, date |-> 0]
    /\ pc' = "done"
    /\ before' = Maps
    /\ UNCHANGED <<gtfs, frames, aux>>

NextGc ==
    \/ TSResolve(GcStatus, MaxFrames)
    \/ TSMerge
    \/ FoldOrder(SnapshotOrders, MaxFrames)
    \/ FoldMessage(MessageInputs, MaxFrames)
    \/ Return
    \/ Cleanup

SpecGc == Init /\ [][NextGc]_vars

\* The folds that write the three trip maps, and the cleanup
NextEvict ==
    \/ TSResolve(GcStatus, MaxFrames)
    \/ TSMerge
    \/ FoldOrder(SnapshotOrders, MaxFrames)
    \/ FoldFormation(SnapshotFormations, MaxFrames)
    \/ Return
    \/ Cleanup

SpecEvict == Init /\ [][NextEvict]_vars

----------------------------------------------------------------------------
(* A cleanup pass on a task of its own, beside the stream processor: the    *)
(* scan, the removal loop, the scan of rid_to_trip_id and the removal of    *)
(* the rids are steps between which a fold may run                          *)

\* cleanup_old_trips, lines 7-50: the clock is read and trip_updates scanned;
\* with nothing expired the pass is over (line 53)
GcScan ==
    /\ tasks.gc.pc = "idle"
    /\ \E threshold_secs \in GcThresholds, now \in GcClocks :
          LET trips_to_remove == Expired(trip_updates, threshold_secs, now)
          IN  tasks' = [tasks EXCEPT !.gc =
                           IF trips_to_remove = {} THEN NoPass
                           ELSE [ pc |-> "remove", threshold_secs |-> threshold_secs, now |-> now,
                                  trips_to_remove |-> trips_to_remove, rids_to_remove |-> {} ]]
    /\ UNCHANGED <<trip_updates, platforms_v2, rid_to_trip_id, station_messages, gtfs, pc, cur, before, frames,
                   disk, saved, link, sched>>

\* cleanup_old_trips, lines 57-60: every key of trips_to_remove is removed
\* from trip_updates and from platforms_v2
GcRemove ==
    /\ tasks.gc.pc = "remove"
    /\ trip_updates' = [k \in DOMAIN trip_updates \ tasks.gc.trips_to_remove |-> trip_updates[k]]
    /\ platforms_v2' = [k \in DOMAIN platforms_v2 \ tasks.gc.trips_to_remove |-> platforms_v2[k]]
    /\ tasks' = [tasks EXCEPT !.gc.pc = "rids"]
    /\ UNCHANGED <<rid_to_trip_id, station_messages, gtfs, pc, cur, before, frames, disk, saved, link, sched>>

\* cleanup_old_trips, lines 66-71: the rids whose value is in trips_to_remove
GcScanRids ==
    /\ tasks.gc.pc = "rids"
    /\ tasks' = [tasks EXCEPT !.gc.pc = "drop",
                              !.gc.rids_to_remove =
                                  {r \in DOMAIN rid_to_trip_id : rid_to_trip_id[r] \in tasks.gc.trips_to_remove}]
    /\ UNCHANGED <<trip_updates, platforms_v2, rid_to_trip_id, station_messages, gtfs, pc, cur, before, frames,
                   disk, saved, link, sched>>

\* cleanup_old_trips, lines 73-75: the rids are removed and the pass is over
GcRemoveRids ==
    /\ tasks.gc.pc = "drop"
    /\ rid_to_trip_id' = [r \in DOMAIN rid_to_trip_id \ tasks.gc.rids_to_remove |-> rid_to_trip_id[r]]
    /\ tasks' = [tasks EXCEPT !.gc = NoPass]
    /\ UNCHANGED <<trip_updates, platforms_v2, station_messages, gtfs, pc, cur, before, frames,
                   disk, saved, link, sched>>

\* Records for the trip L1_1: none of its stops, stops up to 10:40, and a
\* stop at 23:58
SweepStatus ==
    { Status("R1", "L1", Day1, ls) :
        ls \in { <<>>,
                 << Loc(Some("X"), Some(Plat(Some("2"), None, None, None)), None,
                        Some(Fc(Some(T1000), None)), Some(Fc(None, Some(T1040))), None) >>,
                 << Loc(Some("Y"), Some(Plat(Some("4"), None, None, None)), None,
                        None, Some(Fc(Some(T2358), None)), None) >> } }

NextSweep ==
    \/ TSResolve(SweepStatus, MaxFolds)
    \/ TSMerge
    \/ Return
    \/ GcScan
    \/ GcRemove
    \/ GcScanRids
    \/ GcRemoveRids

SpecSweep == Init /\ [][NextSweep]_vars

----------------------------------------------------------------------------
(* One Push Port frame: processor::process_pmap on a decoded Pport.        *)
(* A fold state is the four maps with the flag `panicked`.                  *)

\* update_trip on one TrainStatus: one outcome per fallback date and per
\* iteration order of platform_v2_updates
StatusOutcomes(s, data, ts) ==
    UNION { LET found == ResolveTrip(data, ts, today)
                ords == IF IsSome(found) THEN Orders(PendingSeqs(s, data, ts, Unwrap(found))) ELSE {<<>>}
            IN  { LET r == update_trip(s, data, ts, today, ord)
                  IN  [ trip_updates |-> r.trip_updates, platforms_v2 |-> r.platforms_v2,
                        rid_to_trip_id |-> r.rid_to_trip_id, station_messages |-> s.station_messages,
                        panicked |-> r.panicked ] : ord \in ords }
            : today \in (IF IsSome(ParseDate(ts.ssd)) THEN {0} ELSE Todays) }

\* process_pmap, lines 18-20: for ts in ur.train_status
RECURSIVE FoldStatuses(_, _, _)
FoldStatuses(ss, data, tss) ==
    IF tss = <<>> THEN ss
    ELSE FoldStatuses(UNION { IF s.panicked THEN {s} ELSE StatusOutcomes(s, data, Head(tss)) : s \in ss },
                      data, Tail(tss))

\* process_pmap, lines 21-23: for to in ur.train_order
RECURSIVE FoldOrders(_, _, _)
FoldOrders(s, data, tos) ==
    IF tos = <<>> \/ s.panicked THEN s
    ELSE LET r == update_trip_from_order(s.trip_updates, s.rid_to_trip_id, data, Head(tos))
         IN  FoldOrders([s EXCEPT !.trip_updates = r.trip_updates,
                                  !.platforms_v2 = OrderPlatforms(@, s.rid_to_trip_id, data, Head(tos)),
                                  !.panicked = r.panicked],
                        data, Tail(tos))

\* process_pmap, lines 24-26: for msg in ur.station_message
RECURSIVE FoldMessages(_, _)
FoldMessages(s, msgs) ==
    IF msgs = <<>> \/ s.panicked THEN s
    ELSE FoldMessages([s EXCEPT !.station_messages = process_station_message(@, Head(msgs))], Tail(msgs))

\* process_pmap, lines 30-32: for formation in ur.formation
RECURSIVE FoldFormations(_, _)
FoldFormations(s, fms) ==
    IF fms = <<>> \/ s.panicked THEN s
    ELSE FoldFormations([s EXCEPT !.trip_updates = process_formation(@, s.rid_to_trip_id, Head(fms))],
                        Tail(fms))

\* process_pmap folding the formations first
process_pmap_formations_first(st, data, pport) ==
    IF ~IsSome(pport.update_record) THEN {st}
    ELSE LET ur == Unwrap(pport.update_record)
         IN  { FoldMessages(FoldOrders(s, data, ur.train_order), ur.station_message) :
                 s \in FoldStatuses({FoldFormations(st, ur.formation)}, data, ur.train_status) }

\* processor::process_pmap : the fold states it can end in. The loop over
\* loading and loading_alias (lines 27-29) writes nothing; schedule_record is
\* not looked at.
process_pmap(st, data, pport) ==
    IF ~IsSome(pport.update_record) THEN {st}
    ELSE LET ur == Unwrap(pport.update_record)
         IN  { FoldFormations(FoldMessages(FoldOrders(s, data, ur.train_order), ur.station_message),
                              ur.formation) :
                 s \in FoldStatuses({st}, data, ur.train_status) }

----------------------------------------------------------------------------
(* The STOMP worker: main.rs connect_and_listen, read_frame,               *)
(* process_frame_bytes, and the reconnect loop around them                 *)

\* The children of uR named `tag`, in document order
Children(elems, tag) ==
    LET hits == SelectSeq(elems, LAMBDA e : e[1] = tag)
    IN  [i \in 1..Len(hits) |-> hits[i][2]]

\* Some children of one name are separated by a child of another name
Overlapped(elems) ==
    \E i, j, k \in 1..Len(elems) : i < j /\ j < k /\ elems[i][1] = elems[k][1] /\ elems[j][1] # elems[i][1]

\* quick_xml::de::from_str::<Pport> on a well-formed document: UpdateRecord
\* collects the children of uR by name (darwin_types.rs 13-40)
Decode(doc) ==
    [ update_record |->
        IF IsSome(doc.uR)
        THEN Some([ train_status |-> Children(Unwrap(doc.uR), "TS"),
                    train_order |-> Children(Unwrap(doc.uR), "TO"),
                    station_message |-> Children(Unwrap(doc.uR), "OW"),
                    loading |-> Children(Unwrap(doc.uR), "loading"),
                    loading_alias |-> Children(Unwrap(doc.uR), "LO"),
                    formation |-> Children(Unwrap(doc.uR), "formation") ])
        ELSE None,
      schedule_record |-> doc.sR ]

\* process_frame_bytes: the outcomes for a body. "empty" is a body of length
\* 0, "bytes" one that does not gunzip to text, "text" the gzip of text that
\* is no Pport document, "pport" the gzip of the document `doc`. A document
\* whose same-named children are not adjacent decodes or fails, by the
\* build of the XML deserializer.
process_frame_bytes(st, data, body) ==
    IF body.kind \in {"empty", "bytes"} THEN {[fold |-> st, result |-> "Ok"]}
    ELSE IF body.kind = "text" THEN {[fold |-> st, result |-> "Err"]}
    ELSE (IF IsSome(Unwrap(body.doc).uR) /\ Overlapped(Unwrap(Unwrap(body.doc).uR))
          THEN {[fold |-> st, result |-> "Err"]} ELSE {})
         \cup {[fold |-> s, result |-> "Ok"] : s \in process_pmap(st, data, Decode(Unwrap(body.doc)))}

\* read_frame, lines 236-257: the header lines into a HashMap, a later line
\* of the same key replacing an earlier one
RECURSIVE ParseHeaders(_, _)
ParseHeaders(lines, headers) ==
    IF lines = <<>> THEN headers
    ELSE ParseHeaders(Tail(lines), MapInsert(headers, Head(lines)[1], Head(lines)[2]))

\* AckId looking at message-id first
AckIdFromMessageId(headers) ==
    IF HasKey(headers, "message-id") THEN Some(headers["message-id"])
    ELSE IF HasKey(headers, "ack") THEN Some(headers["ack"])
    ELSE None

\* connect_and_listen, lines 206-214: the id of the ACK frame, if one is sent
AckId(headers) ==
    IF HasKey(headers, "ack") THEN Some(headers["ack"])
    ELSE IF HasKey(headers, "message-id") THEN Some(headers["message-id"])
    ELSE None

\* Frames read in one run, and the number of connection attempts counted
\* (further attempts are made and not counted)
MaxReads == 2

MaxAttempts == 2

\* The longest list of children of uR
MaxDoc == 3

\* Header blocks of MESSAGE frames
HeaderLines ==
    { << <<"message-id", "M7">>, <<"ack", "A7">> >>,
      << <<"message-id", "M7">> >>,
      << <<"destination", "D">> >> }

\* Children of uR: two TrainStatus (the second for the trip L1_1_VP), a
\* TrainOrder and a Formation for the rid of the first, a station message, a
\* Loading
Elements ==
    { <<"TS", Status("R1", "L1", Day1,
                     << Loc(Some("X"), Some(Plat(Some("2"), None, None, None)), None,
                            Some(Fc(Some(T1000), None)), None, None) >>)>>,
      <<"TS", Status("R2", "L1", Day2, <<>>)>>,
      <<"TO", Order("X", Some("4"),
                    Some([first |-> Some(Item(Some([value |-> "R1"]), Some("1A01"))),
                          second |-> Some(Item(Some([value |-> "R9"]), None)), third |-> None]))>>,
      <<"formation", [rid |-> "R1", coaches |-> << [number |-> "A"], [number |-> "B"] >>]>>,
      <<"OW", [id |-> "M1", category |-> "Train", message |-> "late"]>>,
      <<"LO", [rid |-> "R1"]>> }

\* Documents: up to MaxDoc different children in any order, with or without a
\* schedule record, and a document holding a schedule record alone
Documents ==
    { [uR |-> Some(es), sR |-> sr] :
        es \in {e \in SeqsUpTo(Elements, MaxDoc) : \A i, j \in 1..Len(e) : e[i] = e[j] => i = j},
        sr \in {None} }
    \cup { [uR |-> ur, sR |-> Some([schedule |-> Some(<< [rid |-> "R1", uid |-> "L1", ssd |-> Day1] >>)])] :
             ur \in {None, Some(<< >>)} }

\* process_frame_bytes on a frame body that holds a document, between the
\* frames of the listen loop
FoldPport(docs, limit) ==
    /\ pc = "idle"
    /\ frames < limit
    /\ \E doc \in docs :
          LET body == [kind |-> "pport", doc |-> Some(doc)]
          IN  \E r \in process_frame_bytes(
                          [ trip_updates |-> trip_updates, platforms_v2 |-> platforms_v2,
                            rid_to_trip_id |-> rid_to_trip_id, station_messages |-> station_messages,
                            panicked |-> FALSE ], gtfs, body) :
                 /\ trip_updates' = r.fold.trip_updates
                 /\ platforms_v2' = r.fold.platforms_v2
                 /\ rid_to_trip_id' = r.fold.rid_to_trip_id
                 /\ station_messages' = r.fold.station_messages
                 /\ pc' = IF r.fold.panicked THEN "panicked" ELSE "done"
                 /\ cur' = [ kind |-> r.result, msg |-> [headers |-> EmptyMap, body |-> body],
                             trip_id |-> None, date |-> 0 ]
    /\ before' = Maps
    /\ frames' = frames + 1
    /\ UNCHANGED <<gtfs, aux>>

NextPmap ==
    \/ FoldPport(Documents, MaxFolds)
    \/ Return

SpecPmap == Init /\ [][NextPmap]_vars

\* Bodies of the frames of the listen loop: an empty one, one that does not
\* gunzip, one that does not decode, and three documents
Bodies ==
    { [kind |-> k, doc |-> None] : k \in {"empty", "bytes", "text"} }
    \cup { [kind |-> "pport", doc |-> Some(d)] :
             d \in { [uR |-> None, sR |-> Some([schedule |-> None])],
                     [uR |-> Some(<< <<"OW", [id |-> "M1", category |-> "Train", message |-> "late"]>> >>),
                      sR |-> None],
                     [uR |-> Some(<< <<"formation", [rid |-> "R1", coaches |-> << [number |-> "A"] >>]>>,
                                     <<"TS", Status("R1", "L1", Day1, <<>>)>> >>),
                      sR |-> None] } }

InitStomp ==
    /\ trip_updates = EmptyMap
    /\ platforms_v2 = EmptyMap
    /\ rid_to_trip_id = EmptyMap
    /\ station_messages = EmptyMap
    /\ gtfs = BuildIndices(FeedA, <<TripA, TripB>>)
    /\ pc = "connecting"
    /\ cur = NoRecord
    /\ before = NoMaps
    /\ frames = 0
    /\ disk = NoFiles
    /\ saved = NoMaps
    /\ tasks = NoTasks
    /\ link = NoLink
    /\ sched = NoIndexWork

\* connect_and_listen, line 167: TcpStream::connect succeeds or fails
Connect ==
    /\ pc = "connecting"
    /\ \E ok \in BOOLEAN : pc' = IF ok THEN "handshake" ELSE "sleeping"
    /\ link' = [ attempts |-> IF link.attempts < MaxAttempts THEN link.attempts + 1 ELSE link.attempts,
                 received |-> <<>>, acks |-> <<>>, sent |-> <<>>, greeted |-> 0 ]
    /\ UNCHANGED <<trip_updates, platforms_v2, rid_to_trip_id, station_messages, gtfs, cur, before, frames,
                   disk, saved, tasks, sched>>

\* connect_and_listen, lines 171-176: the CONNECT frame is written, or the
\* write fails and ends the connection
SendConnect ==
    /\ pc = "handshake"
    /\ \/ /\ link' = [link EXCEPT !.sent = Append(@, "CONNECT")]
          /\ pc' = "greeting"
       \/ /\ pc' = "sleeping"
          /\ UNCHANGED link
    /\ UNCHANGED <<trip_updates, platforms_v2, rid_to_trip_id, station_messages, gtfs, cur, before, frames,
                   disk, saved, tasks, sched>>

\* AfterHandshakeFrame with the frame handed to the listen loop
AfterHandshakeFrameListened(frame) == "process"

\* connect_and_listen, line 179: `let _ = read_frame(..).await?`; the frame
\* is dropped, whatever its command, headers and body, and SUBSCRIBE is next
AfterHandshakeFrame(frame) == "subscribe"

\* connect_and_listen, line 179: read_frame fails, or gives the one frame
\* read before the listen loop (cur keeps it until SUBSCRIBE is written)
ReadHandshakeFrame ==
    /\ pc = "greeting"
    /\ \/ /\ pc' = "sleeping"
          /\ UNCHANGED <<cur, link>>
       \/ \E lines \in HeaderLines, body \in Bodies :
             LET frame == [headers |-> ParseHeaders(lines, EmptyMap), body |-> body]
             IN  /\ cur' = [kind |-> "HANDSHAKE", msg |-> frame, trip_id |-> None, date |-> 0]
                 /\ link' = [link EXCEPT !.greeted = @ + 1]
                 /\ pc' = AfterHandshakeFrame(frame)
    /\ UNCHANGED <<trip_updates, platforms_v2, rid_to_trip_id, station_messages, gtfs, before, frames,
                   disk, saved, tasks, sched>>

\* connect_and_listen, lines 181-187: the SUBSCRIBE frame is written, or the
\* write fails and ends the connection
SendSubscribe ==
    /\ pc = "subscribe"
    /\ \/ /\ link' = [link EXCEPT !.sent = Append(@, "SUBSCRIBE")]
          /\ pc' = "read"
          /\ cur' = NoRecord
       \/ /\ pc' = "sleeping"
          /\ UNCHANGED <<link, cur>>
    /\ UNCHANGED <<trip_updates, platforms_v2, rid_to_trip_id, station_messages, gtfs, before, frames,
                   disk, saved, tasks, sched>>

\* connect_and_listen, line 191: read_frame fails (EOF, I/O error) or gives
\* the headers and the body of the next frame
ReadFrame ==
    /\ pc = "read"
    /\ \/ /\ pc' = "sleeping"
          /\ UNCHANGED <<cur, before, frames, link>>
       \/ /\ frames < MaxReads
          /\ \E lines \in HeaderLines, body \in Bodies :
                /\ cur' = [ kind |-> "FRAME", msg |-> [headers |-> ParseHeaders(lines, EmptyMap), body |-> body],
                            trip_id |-> None, date |-> 0 ]
                /\ link' = [link EXCEPT !.received = Append(@, lines)]
          /\ before' = Maps
          /\ frames' = frames + 1
          /\ pc' = "process"
    /\ UNCHANGED <<trip_updates, platforms_v2, rid_to_trip_id, station_messages, gtfs, disk, saved, tasks, sched>>

\* AfterFrame with the Err of process_frame_bytes passed on by `?`
AfterFrameStrict(r) ==
    IF r.fold.panicked THEN "panicked" ELSE IF r.result = "Err" THEN "sleeping" ELSE "ack"

\* connect_and_listen, lines 194-200: where the worker stands after
\* process_frame_bytes; an Err is logged and the loop goes on to the ACK
AfterFrame(r) == IF r.fold.panicked THEN "panicked" ELSE "ack"

\* connect_and_listen, lines 193-200: process_frame_bytes; a panic inside
\* process_pmap ends the task
ProcessFrame ==
    /\ pc = "process"
    /\ \E r \in process_frame_bytes(
                  [ trip_updates |-> trip_updates, platforms_v2 |-> platforms_v2,
                    rid_to_trip_id |-> rid_to_trip_id, station_messages |-> station_messages,
                    panicked |-> FALSE ], gtfs, cur.msg.body) :
          /\ trip_updates' = r.fold.trip_updates
          /\ platforms_v2' = r.fold.platforms_v2
          /\ rid_to_trip_id' = r.fold.rid_to_trip_id
          /\ station_messages' = r.fold.station_messages
          /\ pc' = AfterFrame(r)
          /\ cur' = [cur EXCEPT !.kind = r.result]
    /\ UNCHANGED <<gtfs, before, frames, aux>>

\* connect_and_listen, lines 206-214: the ACK frame is written, or the write
\* fails and ends the connection; no ACK for a frame with neither header
SendAck ==
    /\ pc = "ack"
    /\ LET id == AckId(cur.msg.headers)
       IN  \/ /\ IsSome(id)
              /\ link' = [link EXCEPT !.acks = Append(@, Unwrap(id)), !.sent = Append(@, "ACK")]
              /\ pc' = "read"
              /\ cur' = NoRecord
              /\ before' = NoMaps
           \/ /\ IsSome(id)
              /\ pc' = "sleeping"
              /\ UNCHANGED <<link, cur, before>>
           \/ /\ ~IsSome(id)
              /\ pc' = "read"
              /\ cur' = NoRecord
              /\ before' = NoMaps
              /\ UNCHANGED link
    /\ UNCHANGED <<trip_updates, platforms_v2, rid_to_trip_id, station_messages, gtfs, frames, disk, saved, tasks, sched>>

\* Wake that stops once MaxAttempts connections have been attempted
WakeCapped ==
    /\ pc = "sleeping"
    /\ link.attempts < MaxAttempts
    /\ pc' = "connecting"
    /\ cur' = NoRecord
    /\ before' = NoMaps
    /\ UNCHANGED <<trip_updates, platforms_v2, rid_to_trip_id, station_messages, gtfs, frames, aux>>

\* main.rs, lines 135-151: connect_and_listen has ended by Ok or by Err, the
\* 10 s sleep is over and the loop starts again
Wake ==
    /\ pc = "sleeping"
    /\ pc' = "connecting"
    /\ cur' = NoRecord
    /\ before' = NoMaps
    /\ UNCHANGED <<trip_updates, platforms_v2, rid_to_trip_id, station_messages, gtfs, frames, aux>>

NextStomp ==
    \/ Connect
    \/ SendConnect
    \/ ReadHandshakeFrame
    \/ SendSubscribe
    \/ ReadFrame
    \/ ProcessFrame
    \/ SendAck
    \/ Wake

SpecStomp == InitStomp /\ [][NextStomp]_vars

\* The sleep of the reconnect loop ends: tokio fires the timer
SpecStompLive == InitStomp /\ [][NextStomp]_vars /\ WF_vars(Wake)

----------------------------------------------------------------------------
(* The static index behind its RwLock: GTFSManager::load_initial, the       *)
(* updater thread of start_updater, and a thread inside one of the lookups  *)

\* GTFSManager::has_data
has_data(data) == data.tiploc_map # EmptyMap

\* Feeds a download may bring: FeedA with its two trips on either service, a
\* calendar for SA alone or for both services, and exceptions that delete a
\* day the calendar has, add a day it has not, or list one day twice
IndexFeeds ==
    { [FeedA EXCEPT !.trips[TripA].service_id = sv[1], !.trips[TripB].service_id = sv[2],
                    !.calendar = cal, !.calendar_dates = cd] :
        sv \in { <<"SA", "SB">>, <<"SB", "SA">> },
        cal \in { ("SA" :> [start_date |-> 1, end_date |-> 3, days |-> {1, 3, 4}]),
                 ("SA" :> [start_date |-> 1, end_date |-> 3, days |-> {1, 3, 4}])
                 @@ ("SB" :> [start_date |-> 1, end_date |-> 4, days |-> {1, 2}]) },
        cd \in { EmptyMap,
                ("SA" :> << [date |-> 3, exception_type |-> "Deleted"] >>)
                @@ ("SB" :> << [date |-> 2, exception_type |-> "Added"] >>),
                ("SA" :> << [date |-> 1, exception_type |-> "Deleted"],
                            [date |-> 0, exception_type |-> "Added"] >>),
                ("SB" :> << [date |-> 1, exception_type |-> "Deleted"],
                            [date |-> 1, exception_type |-> "Added"] >>) } }

\* The lookups a thread may call, with their arguments
Lookups ==
    { [call |-> "find_trip_id", arg |-> u, date |-> d] : u \in {"L1", "U9"}, d \in 0..4 }
    \cup { [call |-> "get_stop_id", arg |-> t, date |-> 0] : t \in {"KX", "Q"} }
    \cup { [call |-> "get_trip_start_time", arg |-> TripA, date |-> 0],
           [call |-> "get_trip_stops", arg |-> TripB, date |-> 0],
           [call |-> "has_data", arg |-> None, date |-> 0] }

\* What the lookup `q` returns on the index `data`
Answer(data, q) ==
    CASE q.call = "find_trip_id" -> find_trip_id(data, q.arg, q.date)
      [] q.call = "get_stop_id" -> get_stop_id(data, q.arg)
      [] q.call = "get_trip_start_time" -> get_trip_start_time(data, q.arg)
      [] q.call = "get_trip_stops" -> get_trip_stops(data, q.arg)
      [] OTHER -> has_data(data)

\* OnFailure emptying the index
OnFailureReset(data) == EmptyIndex

\* load_initial line 75 (`?`) and start_updater lines 62-64 (the Err arm):
\* the index after a download that failed
OnFailure(data) == data

\* CanWrite without the lock
CanWriteUnlocked(rd) == TRUE

\* start_updater line 57, data_clone.write(): granted when no read guard is held
CanWrite(rd) == rd.pc = "idle"

\* main.rs 36-44: AppState::new has built GTFSManager::new, load_initial is next
InitIndex ==
    /\ trip_updates = EmptyMap
    /\ platforms_v2 = EmptyMap
    /\ rid_to_trip_id = EmptyMap
    /\ station_messages = EmptyMap
    /\ gtfs = EmptyIndex
    /\ pc = "idle"
    /\ cur = NoRecord
    /\ before = NoMaps
    /\ frames = 0
    /\ disk = NoFiles
    /\ saved = NoMaps
    /\ tasks = NoTasks
    /\ link = NoLink
    /\ sched = [upd |-> [pc |-> "initial", new_data |-> None, last |-> "none"], rd |-> NoLookup]

\* GTFSManager::load_initial, then start_updater (main.rs 44-50): on success
\* the index is replaced; the updater thread starts either way
LoadInitial ==
    /\ sched.upd.pc = "initial"
    /\ \/ /\ gtfs' = OnFailure(gtfs)
          /\ sched' = [sched EXCEPT !.upd = [pc |-> "download", new_data |-> None, last |-> "failed"]]
       \/ /\ \E feed \in IndexFeeds : \E order \in Orders(DOMAIN feed.trips) :
                gtfs' = BuildIndices(feed, order)
          /\ sched' = [sched EXCEPT !.upd = [pc |-> "download", new_data |-> None, last |-> "ok"]]
    /\ UNCHANGED <<trip_updates, platforms_v2, rid_to_trip_id, station_messages, pc, cur, before, frames,
                   disk, saved, tasks, link>>

\* start_updater, lines 53-55 and 62-64: download_and_load fails, or the new
\* index is built off to the side
Download ==
    /\ sched.upd.pc = "download"
    /\ \/ /\ gtfs' = OnFailure(gtfs)
          /\ sched' = [sched EXCEPT !.upd = [pc |-> "sleeping", new_data |-> None, last |-> "failed"]]
       \/ /\ \E feed \in IndexFeeds : \E order \in Orders(DOMAIN feed.trips) :
                sched' = [sched EXCEPT !.upd = [ pc |-> "swap", new_data |-> Some(BuildIndices(feed, order)),
                                                 last |-> "ok" ]]
          /\ UNCHANGED gtfs
    /\ UNCHANGED <<trip_updates, platforms_v2, rid_to_trip_id, station_messages, pc, cur, before, frames,
                   disk, saved, tasks, link>>

\* start_updater, lines 56-59: *d = new_data under the write guard
Swap ==
    /\ sched.upd.pc = "swap"
    /\ CanWrite(sched.rd)
    /\ gtfs' = Unwrap(sched.upd.new_data)
    /\ sched' = [sched EXCEPT !.upd = [pc |-> "sleeping", new_data |-> None, last |-> "ok"]]
    /\ UNCHANGED <<trip_updates, platforms_v2, rid_to_trip_id, station_messages, pc, cur, before, frames,
                   disk, saved, tasks, link>>

\* start_updater, line 67: thread::sleep(3600 s) returns and the loop starts again
Tick ==
    /\ sched.upd.pc = "sleeping"
    /\ sched' = [sched EXCEPT !.upd.pc = "download"]
    /\ UNCHANGED <<trip_updates, platforms_v2, rid_to_trip_id, station_messages, gtfs, pc, cur, before, frames,
                   disk, saved, tasks, link>>

\* A thread enters a lookup: self.data.read() gives it a read guard
\* (static_data.rs 89, 103, 121-123, 130, 180); `held` is the index at that moment
Lookup ==
    /\ sched.upd.pc # "initial"
    /\ sched.rd.pc = "idle"
    /\ \E q \in Lookups :
          sched' = [sched EXCEPT !.rd = [NoLookup EXCEPT !.pc = "locked", !.call = q.call, !.arg = q.arg,
                                                         !.date = q.date, !.held = Some(gtfs)]]
    /\ UNCHANGED <<trip_updates, platforms_v2, rid_to_trip_id, station_messages, gtfs, pc, cur, before, frames,
                   disk, saved, tasks, link>>

\* find_trip_id, lines 107-117: the lookup moves on from candidate i
NextCandidate(rd) ==
    IF rd.i < Len(rd.cands)
    THEN [rd EXCEPT !.pc = "trip", !.i = rd.i + 1, !.sid = None]
    ELSE [rd EXCEPT !.pc = "returning", !.result = Some(None)]

\* The first read under the guard: find_trip_id line 106 (the candidates of
\* the uid), or the whole of a lookup that reads one map
ReadIndex ==
    /\ sched.rd.pc = "locked"
    /\ sched' = [sched EXCEPT !.rd =
                    IF sched.rd.call = "find_trip_id"
                    THEN NextCandidate([sched.rd EXCEPT !.cands = IF HasKey(gtfs.uid_index, sched.rd.arg)
                                                                  THEN gtfs.uid_index[sched.rd.arg] ELSE <<>>])
                    ELSE [sched.rd EXCEPT !.pc = "returning", !.result = Some(Answer(gtfs, sched.rd))]]
    /\ UNCHANGED <<trip_updates, platforms_v2, rid_to_trip_id, station_messages, gtfs, pc, cur, before, frames,
                   disk, saved, tasks, link>>

\* find_trip_id, line 110: data.trips.get(trip_id)
ReadTrip ==
    /\ sched.rd.pc = "trip"
    /\ sched' = [sched EXCEPT !.rd =
                    IF HasKey(gtfs.trips, sched.rd.cands[sched.rd.i])
                    THEN [sched.rd EXCEPT !.pc = "service",
                                          !.sid = Some(gtfs.trips[sched.rd.cands[sched.rd.i]].service_id)]
                    ELSE NextCandidate(sched.rd)]
    /\ UNCHANGED <<trip_updates, platforms_v2, rid_to_trip_id, station_messages, gtfs, pc, cur, before, frames,
                   disk, saved, tasks, link>>

\* find_trip_id, lines 111-113: service_runs_on_date on calendar_dates and calendar
ReadService ==
    /\ sched.rd.pc = "service"
    /\ sched' = [sched EXCEPT !.rd =
                    IF service_runs_on_date(gtfs, Unwrap(sched.rd.sid), sched.rd.date)
                    THEN [sched.rd EXCEPT !.pc = "returning", !.result = Some(Some(sched.rd.cands[sched.rd.i]))]
                    ELSE NextCandidate(sched.rd)]
    /\ UNCHANGED <<trip_updates, platforms_v2, rid_to_trip_id, station_messages, gtfs, pc, cur, before, frames,
                   disk, saved, tasks, link>>

\* The lookup returns and its read guard is dropped
Release ==
    /\ sched.rd.pc = "returning"
    /\ sched' = [sched EXCEPT !.rd = NoLookup]
    /\ UNCHANGED <<trip_updates, platforms_v2, rid_to_trip_id, station_messages, gtfs, pc, cur, before, frames,
                   disk, saved, tasks, link>>

NextIndex ==
    \/ LoadInitial
    \/ Download
    \/ Swap
    \/ Tick
    \/ Lookup
    \/ ReadIndex
    \/ ReadTrip
    \/ ReadService
    \/ Release

SpecIndex == InitIndex /\ [][NextIndex]_vars

\* The sleep of the updater loop ends
SpecIndexLive == InitIndex /\ [][NextIndex]_vars /\ WF_vars(Tick)

----------------------------------------------------------------------------
(* The forecasts of a location: TrainStatus records for the loop trip L1_1  *)
(* whose locations carry arr and dep, dep alone with et and at, a stop      *)
(* either side of midnight, and a pass alone                                *)

\* "00:02"
T0002 == <<0, 2>>

TimeLocations ==
    { Loc(Some("X"), None, None, Some(Fc(Some(T1000), None)), Some(Fc(Some(T1040), None)), None),
      Loc(Some("X"), None, None, None, Some(Fc(Some(T1000), Some(T1040))), None),
      Loc(Some("Y"), None, None, Some(Fc(Some(T2358), None)), Some(Fc(Some(T0002), None)), None),
      Loc(Some("Y"), None, None, None, None, Some(Fc(Some(T1000), None))) }

TimeInputs == { Status("R1", "L1", Day1, ls) : ls \in SeqsUpTo(TimeLocations, MaxLocs) }

NextTimes ==
    \/ TSResolve(TimeInputs, MaxFolds)
    \/ TSMerge
    \/ Return

SpecTimes == Init /\ [][NextTimes]_vars

----------------------------------------------------------------------------
(* A trip that runs on two days: the feed of FeedA with the calendar of     *)
(* service SA running on day 1 and on day 2, so that the TrainStatus        *)
(* records of UID L1 resolve to the static trip L1_1 on either day          *)

FeedDaily == [FeedA EXCEPT !.calendar = ("SA" :> [start_date |-> 1, end_date |-> 3, days |-> {1, 2}])]

InitDays ==
    /\ trip_updates = EmptyMap
    /\ platforms_v2 = EmptyMap
    /\ rid_to_trip_id = EmptyMap
    /\ station_messages = EmptyMap
    /\ gtfs = BuildIndices(FeedDaily, <<TripA, TripB>>)
    /\ pc = "idle"
    /\ cur = NoRecord
    /\ before = NoMaps
    /\ frames = 0
    /\ disk = NoFiles
    /\ saved = NoMaps
    /\ tasks = NoTasks
    /\ link = NoLink
    /\ sched = NoIndexWork

SpecDays == InitDays /\ [][NextStops]_vars

----------------------------------------------------------------------------
(* parse_time on its own: the forecasts and service days of a call          *)

\* Time texts split at ':' with each field parsed as u32, a field that is not
\* a number standing as -1: "10:00", "23:59", "00:00", "7:05", "24:00",
\* "10:60", "10", "10:00:00", "ab:00", "10:xx"
TimeTexts ==
    { <<10, 0>>, <<23, 59>>, <<0, 0>>, <<7, 5>>, <<24, 0>>, <<10, 60>>, <<10>>, <<10, 0, 0>>,
      <<-1, 0>>, <<10, -1>> }

\* ssd texts: two dates and a text that is no date
SsdTexts == {Day1, Day2, "1970-02-30"}

\* build_stop_time_update, lines 364-368: one call of parse_time, on the
\* forecast of a location and the ssd of its TrainStatus
ParseTime ==
    /\ pc = "idle"
    /\ \E et \in {None} \cup {Some(t) : t \in TimeTexts},
          at \in {None} \cup {Some(t) : t \in TimeTexts},
          ssd \in SsdTexts :
          cur' = [ kind |-> "PARSE",
                   msg |-> [f |-> Fc(et, at), ssd |-> ssd, event |-> parse_time(Fc(et, at), ssd)],
                   trip_id |-> None, date |-> 0 ]
    /\ pc' = "done"
    /\ UNCHANGED <<trip_updates, platforms_v2, rid_to_trip_id, station_messages, gtfs, before, frames, aux>>

NextParse ==
    \/ ParseTime
    \/ Return

SpecParse == Init /\ [][NextParse]_vars

----------------------------------------------------------------------------
(* The cursor into the static stop list: TrainStatus records for the loop   *)
(* trip L1_1 whose locations are a stop of the route, a location without    *)
(* tiploc and a location whose tiploc the index does not know, each with a  *)
(* published platform                                                       *)

CursorLocations ==
    { Loc(Some("X"), Some(Plat(Some("2"), None, None, None)), None, None, None, None),
      Loc(Some("Y"), Some(Plat(Some("4"), None, None, None)), None, None, None, None),
      Loc(None, Some(Plat(Some("2"), None, None, None)), None, Some(Fc(Some(T1000), None)), None, None),
      Loc(Some("Q"), Some(Plat(Some("4"), None, None, None)), None, Some(Fc(Some(T1040), None)), None, None) }

CursorInputs == { Status("R1", "L1", Day1, ls) : ls \in SeqsUpTo(CursorLocations, MaxVisits) }

NextCursor ==
    \/ TSResolve(CursorInputs, MaxFolds)
    \/ TSMerge
    \/ Return

SpecCursor == Init /\ [][NextCursor]_vars

----------------------------------------------------------------------------
(* A static stop list that repeats a sequence number: the feed of FeedA     *)
(* with the stop_times of L1_1 being X at 3, Y at 3 and X at 7, as          *)
(* build_indices copies them from a feed that holds them                    *)

FeedRepeat ==
    [FeedA EXCEPT !.trips[TripA].stop_times =
        << [stop_id |-> "X", stop_sequence |-> 3, departure_time |-> Some(36000)],
           [stop_id |-> "Y", stop_sequence |-> 3, departure_time |-> Some(37200)],
           [stop_id |-> "X", stop_sequence |-> 7, departure_time |-> None] >>]

InitRepeat ==
    /\ trip_updates = EmptyMap
    /\ platforms_v2 = EmptyMap
    /\ rid_to_trip_id = EmptyMap
    /\ station_messages = EmptyMap
    /\ gtfs = BuildIndices(FeedRepeat, <<TripA, TripB>>)
    /\ pc = "idle"
    /\ cur = NoRecord
    /\ before = NoMaps
    /\ frames = 0
    /\ disk = NoFiles
    /\ saved = NoMaps
    /\ tasks = NoTasks
    /\ link = NoLink
    /\ sched = NoIndexWork

SpecRepeat == InitRepeat /\ [][NextCursor]_vars

----------------------------------------------------------------------------
(* The hourly refresh beside the stream processor: the updater thread      *)
(* downloads and swaps the index while TrainStatus records are folded; each *)
(* lookup of the fold takes the read guard for itself (static_data.rs 89,  *)
(* 103, 121, 130), so the swap may come between find_trip_id and the        *)
(* lookups that follow it                                                   *)

\* A record for UID L1 on day 1, with no location or with a stop at X
RefreshStatus ==
    { Status("R1", "L1", Day1, ls) :
        ls \in { <<>>,
                 << Loc(Some("X"), Some(Plat(Some("2"), None, None, None)), None,
                        Some(Fc(Some(T1000), None)), None, None) >> } }

NextRefresh ==
    \/ TSResolve(RefreshStatus, MaxFolds)
    \/ TSMerge
    \/ Return
    \/ Tick
    \/ Download
    \/ Swap

SpecRefresh == Init /\ [][NextRefresh]_vars

----------------------------------------------------------------------------
(* The guards the tasks take and drop. A DashMap guard locks the shard of  *)
(* its key, for reading (get, iter) or for writing (get_mut, entry, insert, *)
(* remove); all keys of a map are taken to share one shard, which is the    *)
(* case with the most waiting. The index is behind one RwLock. Each         *)
(* operation is the list of its guard steps in program order.               *)

Read(lock) == [step |-> "read", lock |-> lock]

Write(lock) == [step |-> "write", lock |-> lock]

Drop(lock) == [step |-> "drop", lock |-> lock]

\* update_trip with one location and one platform: find_trip_id, the rid
\* insert, get_trip_stops, then the entry of trip_updates held to the end
\* over get_trip_start_time, get_stop_id and the entry of platforms_v2
FoldGuards ==
    << Read("gtfs"), Drop("gtfs"),
       Write("rid_to_trip_id"), Drop("rid_to_trip_id"),
       Read("gtfs"), Drop("gtfs"),
       Write("trip_updates"),
       Read("gtfs"), Drop("gtfs"),
       Read("gtfs"), Drop("gtfs"),
       Write("platforms_v2"), Drop("platforms_v2"),
       Drop("trip_updates") >>

\* update_trip_from_order for one slot: the rid entry held over get_stop_id
\* and over the entry of the side entity, itself held over get_stop_id
OrderGuards ==
    << Read("rid_to_trip_id"),
       Read("gtfs"), Drop("gtfs"),
       Write("trip_updates"),
       Read("gtfs"), Drop("gtfs"),
       Drop("trip_updates"),
       Drop("rid_to_trip_id") >>

\* process_formation keeping the get_mut guard while it calls entry
FormationGuardsKeepingFirst ==
    << Read("rid_to_trip_id"),
       Write("trip_updates"),
       Write("trip_updates"), Drop("trip_updates"),
       Drop("trip_updates"),
       Drop("rid_to_trip_id") >>

\* process_formation: the rid entry held over get_mut, whose guard ends with
\* the if-let, and over the entry of the side entity
FormationGuards ==
    << Read("rid_to_trip_id"),
       Write("trip_updates"), Drop("trip_updates"),
       Write("trip_updates"), Drop("trip_updates"),
       Drop("rid_to_trip_id") >>

\* cleanup_old_trips: the scan, the two removals, the scan of the rids and
\* their removal, each guard dropped before the next is taken
CleanupGuards ==
    << Read("trip_updates"), Drop("trip_updates"),
       Write("trip_updates"), Drop("trip_updates"),
       Write("platforms_v2"), Drop("platforms_v2"),
       Read("rid_to_trip_id"), Drop("rid_to_trip_id"),
       Write("rid_to_trip_id"), Drop("rid_to_trip_id") >>

\* save_state: iter over trip_updates, then iter over platforms_v2
SaveGuards ==
    << Read("trip_updates"), Drop("trip_updates"),
       Read("platforms_v2"), Drop("platforms_v2") >>

\* GET /gtfs-rt
FeedGuards == << Read("trip_updates"), Drop("trip_updates") >>

\* GET /platforms-v2
PlatformsGuards == << Read("platforms_v2"), Drop("platforms_v2") >>

\* start_updater: *d = new_data under the write guard
SwapGuards == << Write("gtfs"), Drop("gtfs") >>

\* The operations a task may start
OpsOf(t) ==
    CASE t = "stream" -> {"update_trip", "update_trip_from_order", "process_formation"}
      [] t = "gc" -> {"cleanup_old_trips"}
      [] t = "save" -> {"save_state"}
      [] t = "http" -> {"gtfs_rt_route", "platforms_v2_route"}
      [] OTHER -> {"start_updater"}

GuardsOf(op) ==
    CASE op = "update_trip" -> FoldGuards
      [] op = "update_trip_from_order" -> OrderGuards
      [] op = "process_formation" -> FormationGuards
      [] op = "cleanup_old_trips" -> CleanupGuards
      [] op = "save_state" -> SaveGuards
      [] op = "gtfs_rt_route" -> FeedGuards
      [] op = "platforms_v2_route" -> PlatformsGuards
      [] op = "start_updater" -> SwapGuards
      [] OTHER -> <<>>

\* The guard steps task t has taken
StepsDone(t) == SubSeq(GuardsOf(tasks.locks[t].op), 1, tasks.locks[t].at)

\* The guards t holds: taken and not dropped since
Holds(t, kind, lock) ==
    LET done == StepsDone(t)
    IN  \E i \in 1..Len(done) :
           /\ done[i] = [step |-> kind, lock |-> lock]
           /\ \A j \in (i + 1)..Len(done) : done[j] # Drop(lock)

Started(t) == tasks.locks[t].op # "none"

\* The step t is about to take
NextStep(t) == GuardsOf(tasks.locks[t].op)[tasks.locks[t].at + 1]

\* t asks for a guard of this kind on this lock
Asks(t, kind, lock) == Started(t) /\ NextStep(t) = [step |-> kind, lock |-> lock]

\* A read guard is granted when no write guard is out, a write guard when no
\* guard is out; the task's own guards count, the locks are not reentrant
Granted(t) ==
    LET s == NextStep(t)
    IN  CASE s.step = "drop" -> TRUE
          [] s.step = "read" -> \A u \in Tasks : ~Holds(u, "write", s.lock)
          [] OTHER -> \A u \in Tasks : ~Holds(u, "write", s.lock) /\ ~Holds(u, "read", s.lock)

\* t cannot go on before u has: u holds a guard that excludes the one t asks
\* for, or t asks for a read guard on a lock that is held while u waits to
\* write it (a lock that prefers writers keeps new readers behind u)
WaitsFor(t, u) ==
    /\ Started(t)
    /\ LET s == NextStep(t)
       IN  \/ /\ s.step = "write"
              /\ Holds(u, "read", s.lock) \/ Holds(u, "write", s.lock)
           \/ /\ s.step = "read"
              /\ Holds(u, "write", s.lock)
           \/ /\ s.step = "read"
              /\ u # t
              /\ Asks(u, "write", s.lock)
              /\ \E v \in Tasks : Holds(v, "read", s.lock) \/ Holds(v, "write", s.lock)

\* t waits for u directly or through at most n - 1 other tasks
RECURSIVE WaitsWithin(_, _, _)
WaitsWithin(t, u, n) ==
    IF n = 0 THEN FALSE
    ELSE \/ WaitsFor(t, u)
         \/ \E v \in Tasks : WaitsFor(t, v) /\ WaitsWithin(v, u, n - 1)

\* A task starts one of its operations
StartOp ==
    /\ \E t \in Tasks :
          /\ ~Started(t)
          /\ \E op \in OpsOf(t) : tasks' = [tasks EXCEPT !.locks[t] = [op |-> op, at |-> 0]]
    /\ UNCHANGED <<trip_updates, platforms_v2, rid_to_trip_id, station_messages, gtfs, pc, cur, before, frames,
                   disk, saved, link, sched>>

\* A task takes its next step, a guard granted or a guard dropped; after the
\* last step the operation is over
GuardStepOf(t) ==
    /\ Started(t)
    /\ Granted(t)
    /\ tasks' = [tasks EXCEPT !.locks[t] =
                    IF tasks.locks[t].at + 1 = Len(GuardsOf(tasks.locks[t].op)) THEN NoGuard
                    ELSE [tasks.locks[t] EXCEPT !.at = @ + 1]]
    /\ UNCHANGED <<trip_updates, platforms_v2, rid_to_trip_id, station_messages, gtfs, pc, cur, before, frames,
                   disk, saved, link, sched>>

GuardStep == \E t \in Tasks : GuardStepOf(t)

NextGuards ==
    \/ StartOp
    \/ GuardStep

SpecGuards == Init /\ [][NextGuards]_vars


----------------------------------------------------------------------------
(* Vocabulary of the properties *)

\* A TrainStatus that resolved to a trip has been folded to its end
FoldedStatus == pc = "done" /\ cur.kind = "TS" /\ IsSome(cur.trip_id)

FoldedTrip == Unwrap(cur.trip_id)

\* The stop-time updates of the trip entity under key k of the map tu
StusOf(tu, k) ==
    IF HasKey(tu, k) /\ IsSome(tu[k].trip_update)
    THEN Unwrap(tu[k].trip_update).stop_time_update
    ELSE <<>>

\* The platform list of trip t in the map pmap, and its entries as a set
PlatformsOf(pmap, t) == IF HasKey(pmap, t) THEN pmap[t] ELSE <<>>

PlatformSet(pmap, t) == {PlatformsOf(pmap, t)[i] : i \in 1..Len(PlatformsOf(pmap, t))}

\* The stop a location maps to
StopOf(data, loc) == IF IsSome(loc.tiploc) THEN get_stop_id(data, Unwrap(loc.tiploc)) ELSE None

\* The sequence the forward scan gives each location of locs, from cursor idx
RECURSIVE ResolvedSeqs(_, _, _, _)
ResolvedSeqs(data, trip_stops, idx, locs) ==
    IF locs = <<>> THEN <<>>
    ELSE IF ~IsSome(StopOf(data, Head(locs)))
         THEN <<None>> \o ResolvedSeqs(data, trip_stops, idx, Tail(locs))
         ELSE LET m == FindSeq(trip_stops, idx, Unwrap(StopOf(data, Head(locs))))
              IN  <<m.found_seq>> \o ResolvedSeqs(data, trip_stops, m.idx, Tail(locs))

\* The sequences resolved for the locations of the TrainStatus folded last
FoldedSeqs ==
    ResolvedSeqs(gtfs, UnwrapOr(get_trip_stops(gtfs, FoldedTrip), <<>>), 1, cur.msg.locations)

\* The location is one the specification calls suppressed
SuppressedLoc(loc) ==
    /\ IsSome(loc.platform)
    /\ (Unwrap(loc.platform).platsup = Some(TRUE) \/ loc.suppr = Some(TRUE))

\* The location carries a platform number and neither platsup nor suppr
PublishedLoc(loc) ==
    /\ IsSome(loc.platform)
    /\ IsSome(Unwrap(loc.platform).number)
    /\ Unwrap(loc.platform).platsup # Some(TRUE)
    /\ loc.suppr # Some(TRUE)

\* The platform entry location i of the folded TrainStatus publishes at sequence s
PublishedEntry(i, s) ==
    [ stop_id |-> Unwrap(StopOf(gtfs, cur.msg.locations[i])),
      sequence |-> s,
      platform |-> Unwrap(Unwrap(cur.msg.locations[i].platform).number) ]

\* The entries of list at sequence s
EntriesAt(list, s) == {i \in 1..Len(list) : list[i].sequence = s}

\* a is a subsequence of b
RECURSIVE IsSubsequence(_, _)
IsSubsequence(a, b) ==
    IF a = <<>> THEN TRUE
    ELSE IF b = <<>> THEN FALSE
    ELSE IF Head(a) = Head(b) THEN IsSubsequence(Tail(a), Tail(b))
    ELSE IsSubsequence(a, Tail(b))

\* The static stops of the folded trip: stop ids, and the sequences of stop x
RouteStops ==
    LET ts == UnwrapOr(get_trip_stops(gtfs, FoldedTrip), <<>>)
    IN  [i \in 1..Len(ts) |-> ts[i][1]]

RouteSeqs(x) ==
    LET ts == UnwrapOr(get_trip_stops(gtfs, FoldedTrip), <<>>)
    IN  SelectSeq([i \in 1..Len(ts) |-> IF ts[i][1] = x THEN Some(ts[i][2]) ELSE None], IsSome)

\* The stops of the folded message's mapped locations, in document order
MessageStops ==
    LET mapped == SelectSeq(cur.msg.locations, LAMBDA l : IsSome(StopOf(gtfs, l)))
    IN  [i \in 1..Len(mapped) |-> Unwrap(StopOf(gtfs, mapped[i]))]

\* The folded message follows the route of its trip
RouteOrdered == IsSubsequence(MessageStops, RouteStops)

\* Locations i < j are the first two visits, in the folded message, of a stop
\* the route holds at two sequences or more
FirstTwoVisits(i, j) ==
    LET locs == cur.msg.locations
    IN  /\ i < j
        /\ IsSome(StopOf(gtfs, locs[i]))
        /\ StopOf(gtfs, locs[j]) = StopOf(gtfs, locs[i])
        /\ \A k \in 1..(j - 1) : k # i => StopOf(gtfs, locs[k]) # StopOf(gtfs, locs[i])
        /\ Len(RouteSeqs(Unwrap(StopOf(gtfs, locs[i])))) >= 2

\* The stop-time update of location i at the n-th sequence of its stop is in
\* the trip's list
VisitRecorded(i, n) ==
    LET loc  == cur.msg.locations[i]
        x    == Unwrap(StopOf(gtfs, loc))
        stus == StusOf(trip_updates, FoldedTrip)
    IN  \E u \in 1..Len(stus) :
           stus[u] = build_stop_time_update(loc, x, cur.msg.ssd, RouteSeqs(x)[n])

----------------------------------------------------------------------------
(* Properties *)

\* C1: after any sequence of TrainStatus folds every trip entity's
\* stop_time_update list is sorted ascending by stop_sequence, an absent
\* sequence sorting as 0, and no two entries carry the same sequence number
\* (entries without a sequence number carry none and may be several).
StopTimesSortedUnique ==
    \A k \in DOMAIN trip_updates :
        LET stus == StusOf(trip_updates, k)
        IN  /\ \A i, j \in 1..Len(stus) :
                  i < j => UnwrapOr(stus[i].stop_sequence, 0) <= UnwrapOr(stus[j].stop_sequence, 0)
            /\ \A i, j \in 1..Len(stus) :
                  (i # j /\ IsSome(stus[i].stop_sequence)) => stus[i].stop_sequence # stus[j].stop_sequence

\* C1 witness: a fold left a list of three entries, one without a sequence at
\* its head and two with sequences after it
StopTimesSortedUniqueWitness ==
    /\ FoldedStatus
    /\ LET stus == StusOf(trip_updates, FoldedTrip)
       IN  /\ Len(stus) = 3
           /\ ~IsSome(stus[1].stop_sequence)
           /\ IsSome(stus[2].stop_sequence)
           /\ stus # StusOf(before.trip_updates, FoldedTrip)

\* C2: folding the TrainStatus just folded a second time leaves trip_updates,
\* platforms_v2 and rid_to_trip_id as they are after the first fold.
TrainStatusIdempotent ==
    FoldedStatus =>
        \A ord \in Orders(PendingSeqs(Maps, gtfs, cur.msg, FoldedTrip)) :
            LET again == update_trip(Maps, gtfs, cur.msg, cur.date, ord)
            IN  /\ again.trip_updates = trip_updates
                /\ again.platforms_v2 = platforms_v2
                /\ again.rid_to_trip_id = rid_to_trip_id

\* C3 as stated: at the moment the entry rid -> trip_id is in rid_to_trip_id and
\* the fold has not gone further, trip_id is a key of trip_updates.
RidMappedToPresentTrip ==
    pc = "ts_merge" =>
        /\ HasKey(rid_to_trip_id, cur.msg.rid)
        /\ HasKey(trip_updates, rid_to_trip_id[cur.msg.rid])

\* C3: once the fold of a TrainStatus that resolved to a trip has ended, by
\* return or by panic, rid_to_trip_id maps its rid to that trip and the trip
\* is a key of trip_updates.
RidMappedTripPresentAfterFold ==
    (pc \in {"done", "panicked"} /\ cur.kind = "TS" /\ IsSome(cur.trip_id)) =>
        /\ HasKey(rid_to_trip_id, cur.msg.rid)
        /\ rid_to_trip_id[cur.msg.rid] = Unwrap(cur.trip_id)
        /\ HasKey(trip_updates, Unwrap(cur.trip_id))

\* C3 witness: the fold of a TrainStatus without locations mapped a rid to a
\* trip that was no key of trip_updates before and is one now
RidMappedTripPresentWitness ==
    /\ FoldedStatus
    /\ cur.msg.locations = <<>>
    /\ ~HasKey(before.rid_to_trip_id, cur.msg.rid)
    /\ ~HasKey(before.trip_updates, FoldedTrip)
    /\ HasKey(trip_updates, FoldedTrip)

\* C4: every trip_updates entry under a key of the form {trip_id}_VP holds a
\* vehicle position and no trip update, and no entity holds both.
VpEntityHoldsVehicleOnly ==
    \A k \in DOMAIN trip_updates :
        /\ (Len(k) > 1 /\ k[Len(k)] = "VP") =>
              (IsSome(trip_updates[k].vehicle) /\ ~IsSome(trip_updates[k].trip_update))
        /\ ~(IsSome(trip_updates[k].trip_update) /\ IsSome(trip_updates[k].vehicle))

\* C5: no record makes the fold panic, so the STOMP worker always goes on to
\* its ACK and the next frame.
WorkerNeverAborts == pc # "panicked"

\* C6: every list of platforms_v2 is strictly ascending by sequence, and a
\* TrainStatus that publishes a platform for a sequence the list already holds
\* leaves one entry for that sequence, with the stop and the platform of the
\* message, the list growing only by the sequences that are new.
PlatformsSortedUniqueReplaced ==
    /\ \A t \in DOMAIN platforms_v2 :
          \A i, j \in 1..Len(platforms_v2[t]) :
              i < j => platforms_v2[t][i].sequence < platforms_v2[t][j].sequence
    /\ FoldedStatus =>
          LET old  == PlatformsOf(before.platforms_v2, FoldedTrip)
              now  == PlatformsOf(platforms_v2, FoldedTrip)
              locs == cur.msg.locations
              pub  == {i \in 1..Len(locs) : PublishedLoc(locs[i]) /\ IsSome(FoldedSeqs[i])}
          IN  /\ \A i \in pub :
                    LET s == Unwrap(FoldedSeqs[i])
                    IN  EntriesAt(old, s) # {} =>
                           /\ Cardinality(EntriesAt(now, s)) = 1
                           /\ PublishedEntry(i, s) \in PlatformSet(platforms_v2, FoldedTrip)
              /\ Len(now) = Len(old)
                            + Cardinality({Unwrap(FoldedSeqs[i]) : i \in pub}
                                          \ {old[n].sequence : n \in 1..Len(old)})

\* C6 witness: a fold replaced the platform of a sequence the list held, in a
\* list of two entries
PlatformsReplacedWitness ==
    /\ FoldedStatus
    /\ Len(PlatformsOf(platforms_v2, FoldedTrip)) = 2
    /\ \E i \in 1..Len(cur.msg.locations) :
          /\ PublishedLoc(cur.msg.locations[i])
          /\ IsSome(FoldedSeqs[i])
          /\ \E e \in PlatformSet(before.platforms_v2, FoldedTrip) :
                /\ e.sequence = Unwrap(FoldedSeqs[i])
                /\ e.platform # PublishedEntry(i, e.sequence).platform
                /\ e \notin PlatformSet(platforms_v2, FoldedTrip)

\* C7: a fold adds or changes an entry of platforms_v2 only for a location
\* that has a platform number, a resolved sequence and neither platsup nor
\* suppr set, and every such location is written, whatever cisPlatsup and
\* conf are; a suppressed location adds and changes nothing.
SuppressedNeverWritten ==
    FoldedStatus =>
        LET locs == cur.msg.locations
        IN  /\ \A t \in (DOMAIN platforms_v2) \ {FoldedTrip} :
                  PlatformsOf(before.platforms_v2, t) = platforms_v2[t]
            /\ \A e \in PlatformSet(platforms_v2, FoldedTrip) \ PlatformSet(before.platforms_v2, FoldedTrip) :
                  \E i \in 1..Len(locs) :
                      /\ PublishedLoc(locs[i])
                      /\ ~SuppressedLoc(locs[i])
                      /\ FoldedSeqs[i] = Some(e.sequence)
                      /\ e = PublishedEntry(i, e.sequence)
            /\ \A i \in 1..Len(locs) :
                  (PublishedLoc(locs[i]) /\ IsSome(FoldedSeqs[i])) =>
                      PublishedEntry(i, Unwrap(FoldedSeqs[i])) \in PlatformSet(platforms_v2, FoldedTrip)

\* C7 witness: one message carried a platform with cisPlatsup set, which was
\* written, and a suppressed platform at another stop, which was not
SuppressedNeverWrittenWitness ==
    /\ FoldedStatus
    /\ Len(PlatformsOf(platforms_v2, FoldedTrip)) = 1
    /\ PlatformsOf(before.platforms_v2, FoldedTrip) = <<>>
    /\ \E i, j \in 1..Len(cur.msg.locations) :
          /\ PublishedLoc(cur.msg.locations[i])
          /\ Unwrap(cur.msg.locations[i].platform).cis_suppressed = Some(TRUE)
          /\ IsSome(FoldedSeqs[i])
          /\ SuppressedLoc(cur.msg.locations[j])
          /\ IsSome(Unwrap(cur.msg.locations[j].platform).number)
          /\ IsSome(FoldedSeqs[j])

\* C8: an entry platforms_v2 held for sequence s before a TrainStatus with a
\* suppressed location at s is still in the list afterwards, with its stop_id
\* and platform.
SuppressionKeepsEntry ==
    FoldedStatus =>
        \A e \in PlatformSet(before.platforms_v2, FoldedTrip) :
            (\E i \in 1..Len(cur.msg.locations) :
                 SuppressedLoc(cur.msg.locations[i]) /\ FoldedSeqs[i] = Some(e.sequence))
            => e \in PlatformSet(platforms_v2, FoldedTrip)

\* C8 witness: the list held a platform at the sequence of a location the
\* message suppresses with a platform number, and holds it still
SuppressionKeepsEntryWitness ==
    /\ FoldedStatus
    /\ \E e \in PlatformSet(before.platforms_v2, FoldedTrip) :
          /\ \E i \in 1..Len(cur.msg.locations) :
                /\ SuppressedLoc(cur.msg.locations[i])
                /\ IsSome(Unwrap(cur.msg.locations[i].platform).number)
                /\ FoldedSeqs[i] = Some(e.sequence)
          /\ e \in PlatformSet(platforms_v2, FoldedTrip)

\* C9: folding a TrainOrder, whatever its tiploc, platform and slots and
\* whether it returns or panics, leaves platforms_v2 as it was.
OrderKeepsPlatforms ==
    (pc \in {"done", "panicked"} /\ cur.kind = "TO") => platforms_v2 = before.platforms_v2

\* C9 witness: a TrainOrder with a platform, at a known stop, wrote a vehicle
\* position while platforms_v2 held entries
OrderKeepsPlatformsWitness ==
    /\ pc = "done"
    /\ cur.kind = "TO"
    /\ IsSome(cur.msg.platform)
    /\ IsSome(get_stop_id(gtfs, cur.msg.tiploc))
    /\ trip_updates # before.trip_updates
    /\ platforms_v2 # EmptyMap

\* C10 as stated: the first two visits, in one TrainStatus, of a stop the
\* route holds at sequences s1 < s2 are recorded at s1 and at s2 with their
\* times.
LoopVisitsRecorded ==
    FoldedStatus =>
        \A i, j \in 1..Len(cur.msg.locations) :
            FirstTwoVisits(i, j) => (VisitRecorded(i, 1) /\ VisitRecorded(j, 2))

\* C10: when the message follows the route (the stops of its mapped locations
\* are a subsequence of the trip's static stops) and both visits carry a
\* forecast, the first visit is recorded at s1 and the second at s2, each with
\* its own times.
LoopVisitsRecordedOnRoute ==
    (FoldedStatus /\ RouteOrdered) =>
        \A i, j \in 1..Len(cur.msg.locations) :
            (FirstTwoVisits(i, j) /\ has_time_data(cur.msg.locations[i]) /\ has_time_data(cur.msg.locations[j]))
            => (VisitRecorded(i, 1) /\ VisitRecorded(j, 2))

\* C10 witness: a message of three locations visited the looped stop, the
\* stop between and the looped stop again, and the two visits are recorded at
\* different sequences with different arrivals
LoopVisitsRecordedWitness ==
    /\ FoldedStatus
    /\ RouteOrdered
    /\ Len(cur.msg.locations) = 3
    /\ FirstTwoVisits(1, 3)
    /\ has_time_data(cur.msg.locations[1])
    /\ has_time_data(cur.msg.locations[3])
    /\ cur.msg.locations[1].arr # cur.msg.locations[3].arr
    /\ VisitRecorded(1, 1)
    /\ VisitRecorded(3, 2)

----------------------------------------------------------------------------
(* Snapshot and restore *)

\* The process has just been started again from the files on disk
Restored == pc = "done" /\ cur.kind = "LOAD"

\* C11: what load_state puts into a fresh state from the files save_state wrote
\* has the keys of the saved trip_updates, the saved stop-time update list
\* under every key, and a platforms_v2 equal to the saved one
SnapshotRoundTrip ==
    Restored =>
        /\ DOMAIN trip_updates = DOMAIN saved.trip_updates
        /\ \A k \in DOMAIN saved.trip_updates :
              StusOf(trip_updates, k) = StusOf(saved.trip_updates, k)
        /\ platforms_v2 = saved.platforms_v2

\* A snapshot with a trip that has stop-time updates, a sidecar entity and a
\* platform list has been restored
SnapshotRoundTripWitness ==
    /\ Restored
    /\ \E k \in DOMAIN trip_updates : Len(StusOf(trip_updates, k)) >= 2
    /\ \E k \in DOMAIN trip_updates : ~IsSome(trip_updates[k].trip_update)
    /\ \E k \in DOMAIN platforms_v2 : Len(platforms_v2[k]) >= 2
    /\ Cardinality(DOMAIN trip_updates) >= 3

----------------------------------------------------------------------------
(* Garbage collection *)

\* A cleanup has just run
Collected == pc = "done" /\ cur.kind = "GC"

\* The arrival and departure times an entity carries
EventTimes(e) ==
    IF ~IsSome(e.trip_update) THEN {}
    ELSE LET stus == Unwrap(e.trip_update).stop_time_update
         IN  {Unwrap(Unwrap(stus[i].arrival).time) :
                i \in {j \in 1..Len(stus) : IsSome(stus[j].arrival) /\ IsSome(Unwrap(stus[j].arrival).time)}}
             \cup
             {Unwrap(Unwrap(stus[i].departure).time) :
                i \in {j \in 1..Len(stus) : IsSome(stus[j].departure) /\ IsSome(Unwrap(stus[j].departure).time)}}

\* The keys the claim says a cleanup removes: an entity with at least one time,
\* all of them more than the threshold before now
Stale ==
    { k \in DOMAIN before.trip_updates :
        /\ EventTimes(before.trip_updates[k]) # {}
        /\ \A t \in EventTimes(before.trip_updates[k]) : t + cur.msg.threshold < cur.msg.now }

\* C12: a cleanup removes from trip_updates and platforms_v2 exactly the stale
\* keys, from rid_to_trip_id exactly the entries whose value is a stale key,
\* and leaves every other entry and station_messages as they were
CleanupRemovesExactlyStale ==
    Collected =>
        /\ trip_updates = [k \in DOMAIN before.trip_updates \ Stale |-> before.trip_updates[k]]
        /\ platforms_v2 = [k \in DOMAIN before.platforms_v2 \ Stale |-> before.platforms_v2[k]]
        /\ rid_to_trip_id =
              [r \in {x \in DOMAIN before.rid_to_trip_id : before.rid_to_trip_id[x] \notin Stale}
                 |-> before.rid_to_trip_id[r]]
        /\ station_messages = before.station_messages

\* A cleanup removed a stale trip with its platforms and its rid, and kept a
\* trip whose last time is exactly threshold before now, its rid and a
\* station message
CleanupRemovesExactlyStaleWitness ==
    /\ Collected
    /\ \E k \in Stale : HasKey(before.platforms_v2, k) /\ ~HasKey(platforms_v2, k)
    /\ \E r \in DOMAIN before.rid_to_trip_id : ~HasKey(rid_to_trip_id, r)
    /\ \E k \in DOMAIN trip_updates :
          \E t \in EventTimes(trip_updates[k]) :
              /\ t + cur.msg.threshold = cur.msg.now
              /\ \A u \in EventTimes(trip_updates[k]) : u <= t
    /\ rid_to_trip_id # EmptyMap
    /\ station_messages # EmptyMap

----------------------------------------------------------------------------
(* Correlation misses *)

\* The rids in the slots of a TrainOrder
SlotRids(to) ==
    IF ~IsSome(to.set) THEN {}
    ELSE { Unwrap(Unwrap(s).rid).value :
             s \in { x \in {Unwrap(to.set).first, Unwrap(to.set).second, Unwrap(to.set).third} :
                       IsSome(x) /\ IsSome(Unwrap(x).rid) } }

\* The keys under which trip_updates differs from what it was before the record
ChangedKeys ==
    { k \in DOMAIN trip_updates \cup DOMAIN before.trip_updates :
        ~HasKey(trip_updates, k) \/ ~HasKey(before.trip_updates, k)
        \/ trip_updates[k] # before.trip_updates[k] }

\* C13: a TrainStatus that does not resolve, and a Formation or Loading whose
\* rid is unknown, leave the four maps as they were; a TrainOrder changes only
\* the sidecar entities of the trips its known rids map to, so a slot whose
\* rid is unknown changes nothing
CorrelationMissChangesNothing ==
    pc \in {"done", "panicked"} =>
        /\ (cur.kind = "TS" /\ ~IsSome(cur.trip_id)) => Maps = before
        /\ (cur.kind \in {"FM", "LO"} /\ ~HasKey(before.rid_to_trip_id, cur.msg.rid)) => Maps = before
        /\ cur.kind = "TO" =>
              /\ ChangedKeys \subseteq
                    { VpKey(before.rid_to_trip_id[r]) : r \in SlotRids(cur.msg) \cap DOMAIN before.rid_to_trip_id }
              /\ platforms_v2 = before.platforms_v2
              /\ rid_to_trip_id = before.rid_to_trip_id
              /\ station_messages = before.station_messages

\* A TrainOrder with a slot of unknown rid next to a slot of known rid has
\* been folded into maps that hold trips, and the known slot was written
CorrelationMissWitness ==
    /\ pc = "done"
    /\ cur.kind = "TO"
    /\ SlotRids(cur.msg) \ DOMAIN before.rid_to_trip_id # {}
    /\ SlotRids(cur.msg) \cap DOMAIN before.rid_to_trip_id # {}
    /\ ChangedKeys # {}
    /\ before.platforms_v2 # EmptyMap

----------------------------------------------------------------------------
(* One frame *)

\* A frame body that held a document has been decoded and folded to its end
FoldedFrame == pc \in {"done", "ack"} /\ cur.kind = "Ok" /\ cur.msg.body.kind = "pport"

\* The children of uR in the document of the frame, in document order
FrameChildren ==
    IF IsSome(Unwrap(cur.msg.body.doc).uR) THEN Unwrap(Unwrap(cur.msg.body.doc).uR) ELSE <<>>

\* The positions of the children named `tag`
ChildrenAt(tag) == {i \in 1..Len(FrameChildren) : FrameChildren[i][1] = tag}

\* The trip the TrainStatus child at position i resolves to, if any
StatusTrip(i) ==
    find_trip_id(gtfs, FrameChildren[i][2].uid, UnwrapOr(ParseDate(FrameChildren[i][2].ssd), 0))

\* The TrainStatus children that register rid r, which the maps did not know
\* before the frame
Registering(r) ==
    IF HasKey(before.rid_to_trip_id, r) THEN {}
    ELSE {i \in ChildrenAt("TS") : FrameChildren[i][2].rid = r /\ IsSome(StatusTrip(i))}

\* C14: after a frame, every Formation and every TrainOrder slot whose rid is
\* registered by a TrainStatus of the same frame has been applied to the trip
\* of that TrainStatus, wherever the three stand in the document; a frame
\* without update record changes no map
FrameFoldedInFixedOrder ==
    FoldedFrame =>
        /\ \A f \in ChildrenAt("formation") : \A i \in Registering(FrameChildren[f][2].rid) :
              LET t == Unwrap(StatusTrip(i))
              IN  /\ HasKey(trip_updates, t)
                  /\ IsSome(trip_updates[t].trip_update)
                  /\ Unwrap(trip_updates[t].trip_update).vehicle
                        = Some([label |-> Some(JoinCoaches(FrameChildren[f][2].coaches))])
        /\ \A o \in ChildrenAt("TO") : \A r \in SlotRids(FrameChildren[o][2]) : \A i \in Registering(r) :
              LET k == VpKey(Unwrap(StatusTrip(i)))
              IN  /\ HasKey(trip_updates, k)
                  /\ IsSome(trip_updates[k].vehicle)
                  /\ \E n \in 1..Len(Unwrap(trip_updates[k].vehicle).multi_carriage_details) :
                        Unwrap(trip_updates[k].vehicle).multi_carriage_details[n].id = Some(r)
        /\ ~IsSome(Unwrap(cur.msg.body.doc).uR) => Maps = before

\* A frame whose document lists a Formation, then a TrainOrder, then the
\* TrainStatus that registers their rid, has been folded
FrameFoldedInFixedOrderWitness ==
    /\ FoldedFrame
    /\ \E f \in ChildrenAt("formation"), o \in ChildrenAt("TO") :
          \E i \in Registering(FrameChildren[f][2].rid) :
              /\ f < o
              /\ o < i
              /\ FrameChildren[f][2].rid \in SlotRids(FrameChildren[o][2])

----------------------------------------------------------------------------
(* The listen loop and the reconnect loop *)

\* The values of the header lines of `lines` named `key`
HeaderValues(lines, key) == {lines[i][2] : i \in {j \in 1..Len(lines) : lines[j][1] = key}}

\* The ACK ids owed to the frames whose header blocks are `blocks`, in order:
\* the `ack` header of a frame that has one, else its `message-id`, nothing
\* for a frame with neither
RECURSIVE ExpectedAcks(_)
ExpectedAcks(blocks) ==
    IF blocks = <<>> THEN <<>>
    ELSE LET acks == HeaderValues(Head(blocks), "ack")
             mids == HeaderValues(Head(blocks), "message-id")
         IN  (IF acks # {} THEN <<CHOOSE a \in acks : TRUE>>
              ELSE IF mids # {} THEN <<CHOOSE m \in mids : TRUE>>
              ELSE <<>>)
             \o ExpectedAcks(Tail(blocks))

\* C15: when the listen loop is about to read, the ACKs written on the
\* connection are exactly those owed to the frames read on it, one per frame
\* in order; while a frame is being processed or is waiting for its ACK, they
\* are exactly those owed to the frames before it
AckPerFrame ==
    /\ pc = "read" => link.acks = ExpectedAcks(link.received)
    /\ pc \in {"process", "ack", "panicked"} =>
          link.acks = ExpectedAcks(SubSeq(link.received, 1, Len(link.received) - 1))

\* Two frames have been read and acknowledged on one connection, the first by
\* its `ack` header and the second by its `message-id`
AckPerFrameWitness ==
    /\ pc = "read"
    /\ Len(link.received) = 2
    /\ HeaderValues(link.received[1], "ack") # {}
    /\ HeaderValues(link.received[1], "message-id") # {}
    /\ HeaderValues(link.received[2], "ack") = {}
    /\ Len(link.acks) = 2
    /\ link.acks[1] # link.acks[2]

\* C16: once connect_and_listen has ended the reconnect loop starts a new
\* attempt, however many were made before, and no step between the end of a
\* connection and the next listen loop changes a state map
WorkerReconnects ==
    /\ (pc = "sleeping") ~> (pc = "connecting")
    /\ [][(pc \in {"sleeping", "connecting", "handshake", "greeting", "subscribe"}) => (Maps' = Maps)]_vars

\* A new attempt starts after at least MaxAttempts earlier ones, with the
\* maps the earlier connections built
WorkerReconnectsWitness ==
    /\ pc = "connecting"
    /\ link.attempts = MaxAttempts
    /\ trip_updates # EmptyMap
    /\ station_messages # EmptyMap

\* C17: processing a body that does not gunzip or does not decode changes no
\* map and leads to the ACK step of the same connection, and from there the
\* loop reads the next frame unless the write of the ACK itself fails
BadBodyDropped ==
    [][ /\ (pc = "process" /\ cur.msg.body.kind \in {"bytes", "text"}) =>
              (pc' = "ack" /\ Maps' = Maps /\ link' = link)
        /\ (pc = "ack" /\ cur.msg.body.kind \in {"bytes", "text"}) =>
              \/ pc' = "read" /\ link'.received = link.received
              \/ pc' = "sleeping" /\ IsSome(AckId(cur.msg.headers)) ]_vars

\* A frame that did not decode has been processed on a connection that had
\* folded a frame before: the maps are as they were and the ACK step is next
BadBodyDroppedWitness ==
    /\ pc = "ack"
    /\ cur.kind = "Err"
    /\ cur.msg.body.kind = "text"
    /\ Len(link.received) = 2
    /\ trip_updates # EmptyMap
    /\ Maps = before

----------------------------------------------------------------------------
(* The static index *)

\* C18: a step in which the initial load or a refresh fails leaves the index
\* as it was; after a failed initial load the updater thread is started, and
\* after a failed refresh the updater sleeps and then downloads again
FailedLoadKeepsIndex ==
    /\ [][ (sched.upd.pc \in {"initial", "download"} /\ sched'.upd.pc # sched.upd.pc
            /\ sched'.upd.last = "failed") =>
              /\ gtfs' = gtfs
              /\ sched'.upd.pc = (IF sched.upd.pc = "initial" THEN "download" ELSE "sleeping") ]_vars
    /\ (sched.upd.pc = "sleeping" /\ sched.upd.last = "failed") ~> (sched.upd.pc = "download")

\* A refresh has failed while an index loaded earlier is in service and a
\* lookup is answered from it
FailedLoadKeepsIndexWitness ==
    /\ sched.upd.pc = "sleeping"
    /\ sched.upd.last = "failed"
    /\ gtfs # EmptyIndex
    /\ sched.rd.pc = "returning"
    /\ sched.rd.call = "find_trip_id"
    /\ Unwrap(sched.rd.result) # None

\* C19: the answer of a lookup is the answer of the whole lookup on the index
\* that was in service when it began or on the one in service when it returns
LookupFromOneIndex ==
    sched.rd.pc = "returning" =>
        Unwrap(sched.rd.result) \in {Answer(Unwrap(sched.rd.held), sched.rd), Answer(gtfs, sched.rd)}

\* A find_trip_id is returning an answer found at its second candidate while
\* the updater stands at the swap with an index that answers otherwise
LookupFromOneIndexWitness ==
    /\ sched.rd.pc = "returning"
    /\ sched.rd.call = "find_trip_id"
    /\ sched.rd.i = 2
    /\ Unwrap(sched.rd.result) # None
    /\ sched.upd.pc = "swap"
    /\ Answer(Unwrap(sched.upd.new_data), sched.rd) # Unwrap(sched.rd.result)

\* The exceptions of service sid listed for the date
ExceptionsOn(data, sid, date) ==
    IF HasKey(data.calendar_dates, sid)
    THEN {data.calendar_dates[sid][n].exception_type :
            n \in {m \in 1..Len(data.calendar_dates[sid]) : data.calendar_dates[sid][m].date = date}}
    ELSE {}

\* The service is active on the date as the claim defines it
ActiveOn(data, sid, date) ==
    \/ "Added" \in ExceptionsOn(data, sid, date)
    \/ /\ ExceptionsOn(data, sid, date) = {}
       /\ HasKey(data.calendar, sid)
       /\ data.calendar[sid].start_date <= date
       /\ date <= data.calendar[sid].end_date
       /\ Weekday(date) \in data.calendar[sid].days

\* No service of the index lists a date both as added and as deleted
ExceptionsKeyed(data) ==
    \A sid \in DOMAIN data.calendar_dates : \A n \in 1..Len(data.calendar_dates[sid]) :
        Cardinality(ExceptionsOn(data, sid, data.calendar_dates[sid][n].date)) = 1

----------------------------------------------------------------------------
(* The consist of a TrainOrder *)

FoldedOrder == pc \in {"done", "panicked"} /\ cur.kind = "TO" /\ IsSome(cur.msg.set)

\* The item of slot k (1 = first, 2 = second, 3 = third) of a set
SlotOf(set, k) == IF k = 1 THEN set.first ELSE IF k = 2 THEN set.second ELSE set.third

\* Slot k of the order folded carries a rid that the fold found mapped
SlotMapped(k) ==
    LET item == SlotOf(Unwrap(cur.msg.set), k)
    IN  /\ IsSome(item)
        /\ IsSome(Unwrap(item).rid)
        /\ HasKey(before.rid_to_trip_id, Unwrap(Unwrap(item).rid).value)

SlotTrip(k) == before.rid_to_trip_id[Unwrap(Unwrap(SlotOf(Unwrap(cur.msg.set), k)).rid).value]

\* The carriage detail the claim gives slot k
SlotDetail(k) ==
    LET item == Unwrap(SlotOf(Unwrap(cur.msg.set), k))
    IN  [id |-> Some(Unwrap(item.rid).value), label |-> item.train_id, carriage_sequence |-> Some(k)]

\* The entity under key holds a vehicle position, bound to trip_id, whose
\* detail at sequence k is cd and no other
VpCarries(tu, trip_id, k, cd) ==
    /\ HasKey(tu, VpKey(trip_id))
    /\ IsSome(tu[VpKey(trip_id)].vehicle)
    /\ IsSome(Unwrap(tu[VpKey(trip_id)].vehicle).trip)
    /\ Unwrap(Unwrap(tu[VpKey(trip_id)].vehicle).trip).trip_id = Some(trip_id)
    /\ LET cds == Unwrap(tu[VpKey(trip_id)].vehicle).multi_carriage_details
       IN  /\ \E i \in 1..Len(cds) : cds[i] = cd
           /\ \A i \in 1..Len(cds) : cds[i].carriage_sequence = Some(k) => cds[i] = cd

\* Every vehicle position lists its carriages in strictly ascending sequence,
\* each sequence one of 1, 2, 3
CarriagesSorted(tu) ==
    \A key \in DOMAIN tu :
        IsSome(tu[key].vehicle) =>
            LET cds == Unwrap(tu[key].vehicle).multi_carriage_details
            IN  /\ \A i \in 1..Len(cds) :
                      IsSome(cds[i].carriage_sequence) /\ Unwrap(cds[i].carriage_sequence) \in {1, 2, 3}
                /\ \A i, j \in 1..Len(cds) :
                      i < j => Unwrap(cds[i].carriage_sequence) < Unwrap(cds[j].carriage_sequence)

\* C21: once a TrainOrder has been folded, every slot k of it whose rid maps
\* to a trip T has a vehicle position under T_VP, bound to T, whose carriage
\* detail k is {rid, trainID, k}; and in every state every vehicle position
\* has its carriage details strictly ascending with sequences among 1, 2, 3
OrderSetsCarriages ==
    /\ FoldedOrder => \A k \in {1, 2, 3} : SlotMapped(k) => VpCarries(trip_updates, SlotTrip(k), k, SlotDetail(k))
    /\ CarriagesSorted(trip_updates)

----------------------------------------------------------------------------
(* The label of a Formation *)

\* A Formation has been folded whose rid was mapped to a trip that had its
\* trip entity
FoldedFormation ==
    /\ pc = "done"
    /\ cur.kind = "FM"
    /\ HasKey(before.rid_to_trip_id, cur.msg.rid)
    /\ HasKey(before.trip_updates, before.rid_to_trip_id[cur.msg.rid])
    /\ IsSome(before.trip_updates[before.rid_to_trip_id[cur.msg.rid]].trip_update)

FormationTrip == before.rid_to_trip_id[cur.msg.rid]

\* The vehicle position as a fresh sidecar of trip_id would be, or as it was
SidecarBefore(trip_id) ==
    IF HasKey(before.trip_updates, VpKey(trip_id))
    THEN before.trip_updates[VpKey(trip_id)].vehicle
    ELSE NewVpEntity(VpKey(trip_id), trip_id).vehicle

\* C22: after the fold of a Formation for a rid mapped to a trip T that has
\* its trip entity, the vehicle label of T's trip update and the vehicle
\* label of the vehicle position under T_VP are the coach numbers joined by
\* '-', and nothing else has changed: T keeps its trip descriptor and
\* stop-time updates, T_VP its binding, stop_id and carriage details (those
\* of a fresh sidecar if it did not exist), every other entity is as it was
FormationLabelsBoth ==
    FoldedFormation =>
        LET T == FormationTrip
            label == Some([label |-> Some(JoinCoaches(cur.msg.coaches))])
        IN  /\ IsSome(trip_updates[T].trip_update)
            /\ Unwrap(trip_updates[T].trip_update) =
                 [Unwrap(before.trip_updates[T].trip_update) EXCEPT !.vehicle = label]
            /\ HasKey(trip_updates, VpKey(T))
            /\ IsSome(trip_updates[VpKey(T)].vehicle)
            /\ IsSome(SidecarBefore(T))
            /\ Unwrap(trip_updates[VpKey(T)].vehicle) = [Unwrap(SidecarBefore(T)) EXCEPT !.vehicle = label]
            /\ DOMAIN trip_updates = DOMAIN before.trip_updates \cup {VpKey(T)}
            /\ \A k \in DOMAIN before.trip_updates \ {T, VpKey(T)} : trip_updates[k] = before.trip_updates[k]

----------------------------------------------------------------------------
(* Forecasts and stop-time updates *)

\* The TrainStatus with every pass forecast taken out
WithoutPass(ts) ==
    [ uid |-> ts.uid, rid |-> ts.rid, ssd |-> ts.ssd,
      locations |-> [i \in 1..Len(ts.locations) |-> [ts.locations[i] EXCEPT !.pass = None]] ]

\* C23: the stop-time updates of the trip after the fold of a TrainStatus are
\* those the fold of the same TrainStatus without its pass forecasts, from
\* the same state, would leave
PassContributesNothing ==
    FoldedStatus =>
        StusOf(trip_updates, FoldedTrip) =
            StusOf(MergeStatus(before, gtfs, WithoutPass(cur.msg), FoldedTrip, cur.date, <<>>).trip_updates,
                   FoldedTrip)

----------------------------------------------------------------------------
(* Service days *)

\* C24: the start_date of the trip entity a TrainStatus has been folded into
\* is the service day (ssd) of that TrainStatus
TripEntityPerDay ==
    FoldedStatus =>
        /\ HasKey(trip_updates, FoldedTrip)
        /\ IsSome(trip_updates[FoldedTrip].trip_update)
        /\ Unwrap(trip_updates[FoldedTrip].trip_update).trip.start_date = Some(FormatDate(cur.date))

\* C25: in every trip entity, a stop-time update that carries an arrival
\* time and a departure time has the arrival no later than the departure
\* (the fold writes both events of an update from one location)
ArrivalBeforeDeparture ==
    \A k \in DOMAIN trip_updates :
        \A i \in 1..Len(StusOf(trip_updates, k)) :
            LET u == StusOf(trip_updates, k)[i]
            IN  (IsSome(u.arrival) /\ IsSome(u.departure)) =>
                    Unwrap(Unwrap(u.arrival).time) <= Unwrap(Unwrap(u.departure).time)

\* The stop-time updates of the trip as the location loop of the fold holds
\* them when it comes to location i (i = number of locations + 1: at its end)
StusAt(i) ==
    FoldLocations(gtfs, UnwrapOr(get_trip_stops(gtfs, FoldedTrip), <<>>), cur.msg.ssd,
                  [stus |-> StusOf(before.trip_updates, FoldedTrip), idx |-> 1, pv2 |-> EmptyMap],
                  SubSeq(cur.msg.locations, 1, i - 1)).stus

\* The positions of list that carry sequence number seq
AtSeq(list, seq) == {j \in 1..Len(list) : list[j].stop_sequence = seq}

\* Location i of the TrainStatus folded last has a stop, time data and a
\* resolved sequence / has a stop and time data and no resolved sequence
SequencedLoc(i) ==
    IsSome(StopOf(gtfs, cur.msg.locations[i])) /\ has_time_data(cur.msg.locations[i]) /\ IsSome(FoldedSeqs[i])

UnsequencedLoc(i) ==
    IsSome(StopOf(gtfs, cur.msg.locations[i])) /\ has_time_data(cur.msg.locations[i]) /\ ~IsSome(FoldedSeqs[i])

\* The stop-time update built from location i alone
BuiltFrom(i) ==
    build_stop_time_update(cur.msg.locations[i], Unwrap(StopOf(gtfs, cur.msg.locations[i])), cur.msg.ssd,
                           FoldedSeqs[i])

\* C26: in the fold of a TrainStatus, the step for a location with time data
\* and resolved sequence s leaves exactly one update with sequence s, the one
\* built from that location alone; it is appended when no update had s, put
\* in the place of the one that had, and every update with another sequence
\* is untouched. The list of the trip after the fold is the list after the
\* last location, sorted
FoldBySequence ==
    FoldedStatus =>
        /\ StusOf(trip_updates, FoldedTrip) = SortStus(StusAt(Len(cur.msg.locations) + 1))
        /\ \A i \in 1..Len(cur.msg.locations) :
              SequencedLoc(i) =>
                  LET pre == StusAt(i)
                      post == StusAt(i + 1)
                      s == FoldedSeqs[i]
                  IN  /\ Cardinality(AtSeq(post, s)) = 1
                      /\ \A j \in AtSeq(post, s) : post[j] = BuiltFrom(i)
                      /\ IF AtSeq(pre, s) = {} THEN post = Append(pre, BuiltFrom(i)) ELSE Len(post) = Len(pre)
                      /\ \A j \in 1..Len(pre) : pre[j].stop_sequence # s => post[j] = pre[j]

\* A location with a departure alone has taken the place of an update that
\* had an arrival, and the arrival is gone
FoldBySequenceWitness ==
    /\ FoldedStatus
    /\ \E i \in 1..Len(cur.msg.locations) :
          /\ SequencedLoc(i)
          /\ ~IsSome(cur.msg.locations[i].arr)
          /\ \E j \in AtSeq(StusAt(i), FoldedSeqs[i]) :
                /\ IsSome(StusAt(i)[j].arrival)
                /\ ~IsSome(StusAt(i + 1)[j].arrival)
                /\ IsSome(StusAt(i + 1)[j].departure)

\* C30: in the fold of a TrainStatus, the step for a location with time data
\* and no resolved sequence leaves every update that carries a sequence
\* number as it was: it changes an update without sequence of the same stop,
\* or appends one
UnsequencedSparesSequenced ==
    FoldedStatus =>
        \A i \in 1..Len(cur.msg.locations) :
            UnsequencedLoc(i) =>
                LET pre == StusAt(i)
                    post == StusAt(i + 1)
                IN  /\ Len(post) >= Len(pre)
                    /\ \A j \in 1..Len(pre) :
                          \/ post[j] = pre[j]
                          \/ /\ ~IsSome(pre[j].stop_sequence)
                             /\ pre[j].stop_id = StopOf(gtfs, cur.msg.locations[i])

----------------------------------------------------------------------------
(* Restore from damaged files *)

\* The file is there and decodes
TripsReadable == IsSome(disk.trips) /\ FeedDecodes(Unwrap(disk.trips))

PlatformsReadable == IsSome(disk.platforms_v2) /\ PlatformsDecode(Unwrap(disk.platforms_v2))

\* C27: every run of load_state ends with startup going on; trip_updates
\* holds the saved trip entities if trips.pb is there and decodes and is
\* empty otherwise, platforms_v2 holds the saved lists if platforms_v2.bin is
\* there and decodes and is empty otherwise, each whatever the state of the
\* other file; rid_to_trip_id and station_messages are empty
RestoreWhatDecodes ==
    [][ LoadState =>
          /\ pc' = "done"
          /\ IF TripsReadable
             THEN /\ DOMAIN trip_updates' = DOMAIN saved.trip_updates
                  /\ \A k \in DOMAIN saved.trip_updates :
                        StusOf(trip_updates', k) = StusOf(saved.trip_updates, k)
             ELSE trip_updates' = EmptyMap
          /\ IF PlatformsReadable THEN platforms_v2' = saved.platforms_v2 ELSE platforms_v2' = EmptyMap
          /\ rid_to_trip_id' = EmptyMap
          /\ station_messages' = EmptyMap ]_vars

\* A restart has found a trips.pb that does not decode and has restored the
\* platform lists of two stops from platforms_v2.bin, and no trip entity
RestoreWhatDecodesWitness ==
    /\ Restored
    /\ IsSome(disk.trips)
    /\ ~FeedDecodes(Unwrap(disk.trips))
    /\ trip_updates = EmptyMap
    /\ \E k \in DOMAIN platforms_v2 : Len(platforms_v2[k]) >= 2
    /\ cur.msg = Some("Ok")

----------------------------------------------------------------------------
(* The STOMP handshake *)

\* The connection in use has had CONNECT written, then one frame read, then
\* SUBSCRIBE written
HandshakeDone ==
    /\ Len(link.sent) >= 2
    /\ link.sent[1] = "CONNECT"
    /\ link.sent[2] = "SUBSCRIBE"
    /\ link.greeted = 1

\* C28: on every connection the worker writes CONNECT, reads one frame,
\* writes SUBSCRIBE and only then runs the listen loop: a connection starts
\* with nothing written; CONNECT is the first command written and SUBSCRIBE
\* the second, each once; the one frame is read between them; no frame is
\* read by the loop, processed or acknowledged before all three are done; and
\* no handshake step changes a state map or writes an ACK
HandshakeFirst ==
    [][ /\ (pc = "connecting" /\ pc' = "handshake") => (link'.sent = <<>> /\ link'.greeted = 0)
        /\ \A i \in 1..Len(link'.sent) :
              /\ (i = 1) <=> (link'.sent[i] = "CONNECT")
              /\ (i = 2) <=> (link'.sent[i] = "SUBSCRIBE")
        /\ (pc' = "greeting") => (link'.sent = <<"CONNECT">> /\ link'.greeted = 0)
        /\ (pc' = "subscribe") => (link'.sent = <<"CONNECT">> /\ link'.greeted = 1)
        /\ (pc' \in {"read", "process", "ack", "panicked"} \/ link'.received # <<>> \/ link'.acks # <<>>)
              => HandshakeDone'
        /\ (pc \in {"handshake", "greeting", "subscribe"}) =>
              (Maps' = Maps /\ link'.acks = <<>> /\ link'.received = <<>> /\ frames' = frames) ]_vars

\* On a second connection, after a first one that folded a frame, the
\* handshake has been made again, with a frame carrying a body and an `ack`
\* header read and dropped, and a frame of the listen loop has been folded
\* and acknowledged
HandshakeFirstWitness ==
    /\ pc = "read"
    /\ link.attempts = 2
    /\ frames = 2
    /\ link.sent = <<"CONNECT", "SUBSCRIBE", "ACK">>
    /\ link.greeted = 1
    /\ Len(link.received) = 1
    /\ Len(link.acks) = 1
    /\ station_messages # EmptyMap
    /\ trip_updates # EmptyMap

----------------------------------------------------------------------------
(* The time of a forecast *)

\* A time text of two numbers, hour 0..23 and minute 0..59
ClockText(t) == Len(t) = 2 /\ t[1] \in 0..23 /\ t[2] \in 0..59

\* Midnight UTC of the two service days, in seconds since the epoch
MidnightUtc == ("1970-01-02" :> 86400) @@ ("1970-01-03" :> 172800)

\* C29: parse_time reads `at` when it is present and `et` only when `at` is
\* absent; with no text it gives no event; with a text of two numbers, hour
\* 0..23 and minute 0..59, and a valid ssd it gives the event whose time is
\* midnight UTC of ssd plus HH hours and MM minutes; for any other text or
\* ssd it gives no event, so an `at` that is not a time gives no event even
\* beside an `et` that is one
ParseTimePrefersAt ==
    cur.kind = "PARSE" =>
        LET f      == cur.msg.f
            ssd    == cur.msg.ssd
            event  == cur.msg.event
            chosen == IF f.at # None THEN f.at ELSE f.et
        IN  /\ (chosen = None) => (event = None)
            /\ (chosen # None /\ ClockText(chosen[1]) /\ ssd \in DOMAIN MidnightUtc) =>
                  event = Some([time |-> Some(MidnightUtc[ssd] + 3600 * chosen[1][1] + 60 * chosen[1][2])])
            /\ (chosen # None /\ ~(ClockText(chosen[1]) /\ ssd \in DOMAIN MidnightUtc)) => (event = None)
            /\ (f.at # None /\ ~ClockText(f.at[1])) => (event = None)

\* parse_time has been called on a forecast whose `at` is "24:00" and whose
\* `et` is "10:00", for a valid ssd, and has given no event
ParseTimePrefersAtWitness ==
    /\ cur.kind = "PARSE"
    /\ cur.msg.f.at = Some(<<24, 0>>)
    /\ cur.msg.f.et = Some(<<10, 0>>)
    /\ cur.msg.ssd = Day2
    /\ cur.msg.event = None

----------------------------------------------------------------------------
(* The cursor of the forward scan *)

\* current_static_idx + 1 when the location loop of the fold comes to
\* location i (i = number of locations + 1: at its end)
CursorAt(i) ==
    FoldLocations(gtfs, UnwrapOr(get_trip_stops(gtfs, FoldedTrip), <<>>), cur.msg.ssd,
                  [stus |-> <<>>, idx |-> 1, pv2 |-> EmptyMap],
                  SubSeq(cur.msg.locations, 1, i - 1)).idx

\* The positions of the static stop list, from the cursor on, that hold the
\* stop of location i
PositionsAhead(i) ==
    LET stops == UnwrapOr(get_trip_stops(gtfs, FoldedTrip), <<>>)
        stop  == StopOf(gtfs, cur.msg.locations[i])
    IN  {p \in CursorAt(i)..Len(stops) : IsSome(stop) /\ stops[p][1] = Unwrap(stop)}

\* C31: in the fold of a TrainStatus the cursor starts at the head of the
\* static stop list and never moves back; a location whose stop occurs at or
\* after the cursor gets the sequence of the first such position and moves
\* the cursor just past it, so the positions assigned are strictly increasing
\* in document order and none is assigned twice; a location with no tiploc,
\* an unmapped tiploc or a stop that does not occur from the cursor on gets no
\* sequence and leaves the cursor where it was. A published platform of a
\* placed location is stored at the sequence of its position.
CursorMovesForward ==
    FoldedStatus =>
        LET locs  == cur.msg.locations
            stops == UnwrapOr(get_trip_stops(gtfs, FoldedTrip), <<>>)
        IN  /\ CursorAt(1) = 1
            /\ \A i \in 1..Len(locs) :
                  IF PositionsAhead(i) = {}
                  THEN FoldedSeqs[i] = None /\ CursorAt(i + 1) = CursorAt(i)
                  ELSE \E p \in PositionsAhead(i) :
                          /\ \A q \in PositionsAhead(i) : p <= q
                          /\ FoldedSeqs[i] = Some(stops[p][2])
                          /\ CursorAt(i + 1) = p + 1
                          /\ PublishedLoc(locs[i]) =>
                                PublishedEntry(i, stops[p][2]) \in PlatformSet(platforms_v2, FoldedTrip)
            /\ \A i, j \in 1..Len(locs) :
                  (i < j /\ PositionsAhead(i) # {} /\ PositionsAhead(j) # {}) =>
                      CursorAt(i + 1) < CursorAt(j + 1)

\* A message of three locations has been folded: a stop placed at sequence 5,
\* a location that maps to no stop, and a stop placed at 7, after an earlier
\* message had left a platform at sequence 3
CursorMovesForwardWitness ==
    /\ FoldedStatus
    /\ Len(cur.msg.locations) = 3
    /\ FoldedSeqs = <<Some(5), None, Some(7)>>
    /\ StopOf(gtfs, cur.msg.locations[2]) = None
    /\ CursorAt(4) = 4
    /\ \E i \in 1..Len(PlatformsOf(platforms_v2, FoldedTrip)) :
          PlatformsOf(platforms_v2, FoldedTrip)[i].sequence = 3

----------------------------------------------------------------------------
(* The platform table and the static stop list *)

\* The (stop_id, stop_sequence) pairs of the static stop list of trip t
StaticPairs(t) ==
    LET stops == UnwrapOr(get_trip_stops(gtfs, t), <<>>)
    IN  {stops[p] : p \in 1..Len(stops)}

\* The locations of the folded TrainStatus that publish a platform and are
\* placed at sequence s
PublishedAt(s) ==
    {i \in 1..Len(cur.msg.locations) : PublishedLoc(cur.msg.locations[i]) /\ FoldedSeqs[i] = Some(s)}

\* C32: every entry of platforms_v2[T] pairs a stop with a sequence as the
\* static stop list of T does; and the fold of a TrainStatus leaves, at every
\* sequence at which one or more of its locations publish a platform, the one
\* entry of the last such location in document order, and at every other
\* sequence what was there before, so that a published platform of a location
\* without resolved sequence is stored nowhere
PlatformsFromStaticStops ==
    /\ \A t \in DOMAIN platforms_v2 :
          \A n \in 1..Len(platforms_v2[t]) :
              <<platforms_v2[t][n].stop_id, platforms_v2[t][n].sequence>> \in StaticPairs(t)
    /\ FoldedStatus =>
          LET old  == PlatformsOf(before.platforms_v2, FoldedTrip)
              now  == PlatformsOf(platforms_v2, FoldedTrip)
              seqs == {pr[2] : pr \in StaticPairs(FoldedTrip)}
                      \cup {old[n].sequence : n \in 1..Len(old)} \cup {now[n].sequence : n \in 1..Len(now)}
          IN  /\ \A s \in seqs :
                    IF PublishedAt(s) = {}
                    THEN {now[n] : n \in EntriesAt(now, s)} = {old[n] : n \in EntriesAt(old, s)}
                    ELSE LET last == CHOOSE i \in PublishedAt(s) : \A j \in PublishedAt(s) : j <= i
                         IN  /\ Cardinality(EntriesAt(now, s)) = 1
                             /\ {now[n] : n \in EntriesAt(now, s)} = {PublishedEntry(last, s)}
              /\ \A t \in DOMAIN platforms_v2 : t # FoldedTrip =>
                    (HasKey(before.platforms_v2, t) /\ platforms_v2[t] = before.platforms_v2[t])

\* A message of three published platforms has been folded on a stop list
\* that holds sequence 3 twice: the first two locations are both placed at
\* 3 and the entry at 3 is that of the second; the third has no sequence and
\* the list holds nothing of it
PlatformsFromStaticStopsWitness ==
    /\ FoldedStatus
    /\ Len(cur.msg.locations) = 3
    /\ \A i \in 1..3 : PublishedLoc(cur.msg.locations[i])
    /\ FoldedSeqs = <<Some(3), Some(3), None>>
    /\ StopOf(gtfs, cur.msg.locations[3]) = Some("Y")
    /\ PlatformsOf(platforms_v2, FoldedTrip) = << [stop_id |-> "Y", sequence |-> 3, platform |-> "4"] >>

----------------------------------------------------------------------------
(* The trip maps together *)

\* C33: between operations (no fold under way), every key of platforms_v2
\* and every value of rid_to_trip_id is a key of trip_updates
TripMapsClosed ==
    (pc \in {"idle", "done"}) =>
        /\ \A t \in DOMAIN platforms_v2 : HasKey(trip_updates, t)
        /\ \A r \in DOMAIN rid_to_trip_id : HasKey(trip_updates, rid_to_trip_id[r])

\* A cleanup removed a trip that had a platform list and a rid, and left a
\* trip with its rid; a Formation had been folded before it
TripMapsClosedWitness ==
    /\ Collected
    /\ \E k \in Stale :
          /\ HasKey(before.platforms_v2, k)
          /\ \E r \in DOMAIN before.rid_to_trip_id : before.rid_to_trip_id[r] = k
    /\ \E r \in DOMAIN rid_to_trip_id : HasKey(trip_updates, rid_to_trip_id[r])
    /\ \E k \in DOMAIN before.trip_updates :
          /\ IsSome(before.trip_updates[k].trip_update)
          /\ IsSome(Unwrap(before.trip_updates[k].trip_update).vehicle)

----------------------------------------------------------------------------
(* Eviction and the sidecar *)

\* Entity e refers to trip k: its trip update or its vehicle position is
\* bound to k
RefersTo(e, k) ==
    \/ IsSome(e.trip_update) /\ Unwrap(e.trip_update).trip.trip_id = Some(k)
    \/ /\ IsSome(e.vehicle)
       /\ IsSome(Unwrap(e.vehicle).trip)
       /\ Unwrap(Unwrap(e.vehicle).trip).trip_id = Some(k)

\* C34: after a cleanup no entity of trip_updates refers to a trip the
\* cleanup removed; the sidecar under {trip_id}_VP goes with its trip
EvictionTakesSidecar ==
    Collected =>
        \A k \in Stale : \A x \in DOMAIN trip_updates : ~RefersTo(trip_updates[x], k)

----------------------------------------------------------------------------
(* A cleanup pass beside the folds *)

\* C35: whatever folds run between the steps of a cleanup pass, the pass
\* removes from trip_updates only entities whose latest event time plus the
\* threshold is before its clock reading at the moment they are removed,
\* with them only the platform lists of such trips, and from rid_to_trip_id
\* only rids whose trip is no key of trip_updates when the pass ends
SweepSparesRefreshed ==
    [][ /\ GcRemove =>
              /\ \A k \in (DOMAIN trip_updates) \ (DOMAIN trip_updates') :
                    k \in Expired(trip_updates, tasks.gc.threshold_secs, tasks.gc.now)
              /\ \A k \in (DOMAIN platforms_v2) \ (DOMAIN platforms_v2') :
                    k \in Expired(trip_updates, tasks.gc.threshold_secs, tasks.gc.now)
        /\ GcRemoveRids =>
              \A r \in (DOMAIN rid_to_trip_id) \ (DOMAIN rid_to_trip_id') :
                  ~HasKey(trip_updates', rid_to_trip_id[r]) ]_vars

----------------------------------------------------------------------------
(* The index a fold reads *)

\* C36: the lookups of one TrainStatus fold are all answered by one index:
\* the index that answers get_trip_stops, get_trip_start_time and get_stop_id
\* is the one that answered find_trip_id, so on it the record's UID and date
\* resolve to the trip the fold is merging into
FoldReadsOneIndex ==
    [][ TSMerge => find_trip_id(gtfs, cur.msg.uid, cur.date) = cur.trip_id ]_vars

----------------------------------------------------------------------------
(* Waiting for guards *)

\* C37: in every interleaving of the stream processor, a cleanup pass, the
\* snapshot writer, an HTTP handler and the updater the guards of the maps
\* and the lock of the index are never waited for in a cycle: no task waits
\* for itself or for a task that waits for it, and every task in an
\* operation either can take its next step or waits, directly or through
\* others, for a task that can, so that no operation is stuck for good
NoWaitCycle ==
    /\ \A t \in Tasks : ~WaitsWithin(t, t, Cardinality(Tasks))
    /\ \A t \in Tasks :
          Started(t) =>
              \/ Granted(t)
              \/ \E u \in Tasks : WaitsWithin(t, u, Cardinality(Tasks)) /\ Started(u) /\ Granted(u)

\* The fold holds its trip_updates entry and waits for the entry of
\* platforms_v2, which the snapshot writer is reading, while the cleanup
\* pass waits for trip_updates
NoWaitCycleWitness ==
    /\ Holds("stream", "write", "trip_updates")
    /\ Asks("stream", "write", "platforms_v2")
    /\ Holds("save", "read", "platforms_v2")
    /\ WaitsFor("stream", "save")
    /\ WaitsFor("gc", "stream")
    /\ tasks.locks["stream"].op = "update_trip"

====
